---- MODULE Spec2Model ----
(***************************************************************************)
(* Icons8-Collector: the browser session driver (scrape_collection,        *)
(* download_files_via_browser), the resource locator (URL validators),     *)
(* the extraction functions and the resilient fetcher (download_icon).     *)
(*                                                                         *)
(* The repository holds two revisions of the package.  rev = "src" is      *)
(* src/src/icons8_collector, rev = "root" is src/icons8_collector.         *)
(* Strings whose characters matter (hosts, paths) are sequences of         *)
(* one-character strings; strings only compared for equality are TLA+      *)
(* strings.                                                                *)
(***************************************************************************)
EXTENDS Integers, Sequences, FiniteSets, TLC

\* Python's None, and the "no match" result of re.search
NONE == "<None>"

Revisions == {"root", "src"}

(***************************************************************************)
(* String helpers (str.lower, str.endswith, the `in` substring test)       *)
(***************************************************************************)
LowerChar(c) ==
    CASE c = "I" -> "i" [] c = "C" -> "c" [] c = "O" -> "o" [] c = "N" -> "n"
      [] c = "S" -> "s" [] c = "M" -> "m" [] OTHER -> c

Lower(s) == [i \in 1..Len(s) |-> LowerChar(s[i])]

EndsWith(s, suf) ==
    /\ Len(s) >= Len(suf)
    /\ SubSeq(s, Len(s) - Len(suf) + 1, Len(s)) = suf

Contains(sub, s) ==
    \E i \in 1..(Len(s) - Len(sub) + 1) : SubSeq(s, i, i + Len(sub) - 1) = sub

(***************************************************************************)
(* Icons8URLs: the allow-lists                                             *)
(***************************************************************************)
BASE_DOMAIN == <<"i", "c", "o", "n", "s", "8", ".", "c", "o", "m">>
IMAGE_DOMAIN == <<"i", "m", "g", ".", "i", "c", "o", "n", "s", "8", ".", "c", "o", "m">>
CDN_DOMAIN == <<"m", "a", "x", "s", "t", ".", "i", "c", "o", "n", "s", "8", ".", "c", "o", "m">>

ALLOWED_DOWNLOAD_DOMAINS == {BASE_DOMAIN, IMAGE_DOMAIN, CDN_DOMAIN}
ALLOWED_COLLECTION_DOMAINS == {BASE_DOMAIN}
ALLOWED_SCHEMES == {"https"}

MarkerCollection == <<"/", "c", "o", "l", "l", "e", "c", "t", "i", "o", "n", "/">>
MarkerCollections == <<"/", "c", "o", "l", "l", "e", "c", "t", "i", "o", "n", "s", "/">>

(***************************************************************************)
(* Candidate URLs, as urlparse splits them: scheme (lower-cased by         *)
(* urlparse), netloc (as written), path.                                   *)
(***************************************************************************)
HostSub == <<"s", "u", "b", ".", "i", "c", "o", "n", "s", "8", ".", "c", "o", "m">>
HostEvilDash == <<"e", "v", "i", "l", "-", "i", "c", "o", "n", "s", "8", ".", "c", "o", "m">>
HostEvil == <<"e", "v", "i", "l", ".", "c", "o", "m">>
HostUpper == <<"I", "C", "O", "N", "S", "8", ".", "C", "O", "M">>
HostSuffixed == <<"i", "c", "o", "n", "s", "8", ".", "c", "o", "m", ".", "e", "v", "i", "l", ".", "c", "o", "m">>
HostPort == <<"i", "c", "o", "n", "s", "8", ".", "c", "o", "m", ":", "4", "4", "3">>
HostEmpty == << >>

PathCollection == <<"/", "i", "c", "o", "n", "s", "/", "c", "o", "l", "l", "e", "c", "t", "i", "o", "n", "/", "a">>
PathCollections == <<"/", "c", "o", "l", "l", "e", "c", "t", "i", "o", "n", "s", "/", "a">>
PathSet == <<"/", "i", "c", "o", "n", "s", "/", "s", "e", "t", "/", "h", "o", "m", "e">>
PathNoSlash == <<"/", "c", "o", "l", "l", "e", "c", "t", "i", "o", "n">>
PathGlued == <<"/", "x", "c", "o", "l", "l", "e", "c", "t", "i", "o", "n", "/", "a">>
PathX == <<"/", "x">>
PathEmpty == << >>

Hosts == {BASE_DOMAIN, IMAGE_DOMAIN, CDN_DOMAIN, HostSub, HostEvilDash, HostEvil,
          HostUpper, HostSuffixed, HostPort, HostEmpty}
Paths == {PathCollection, PathCollections, PathSet, PathNoSlash, PathGlued, PathX, PathEmpty}
Schemes == {"https", "http", "ftp", ""}

Urls == [scheme : Schemes, netloc : Hosts, path : Paths]

\* the empty string: `not url`
IsEmptyUrl(u) == u.scheme = "" /\ u.netloc = << >> /\ u.path = << >>

(***************************************************************************)
(* Icons8URLs.is_valid_domain                                              *)
(***************************************************************************)
is_valid_domain_substring(u, allowed_domains) ==
    LET domain == Lower(u.netloc)
    IN  \E allowed \in allowed_domains :
            domain = allowed \/ EndsWith(domain, allowed)

is_valid_domain(u, allowed_domains) ==
    LET domain == Lower(u.netloc)
    IN  \E allowed \in allowed_domains :
            domain = allowed \/ EndsWith(domain, <<".">> \o allowed)

(***************************************************************************)
(* Icons8Client.validate_download_url: "ok" or the error kind raised       *)
(***************************************************************************)
validate_download_url(u) ==
    IF IsEmptyUrl(u) THEN "ValidationError"
    ELSE IF u.scheme \notin ALLOWED_SCHEMES THEN "ValidationError"
    ELSE IF ~is_valid_domain(u, ALLOWED_DOWNLOAD_DOMAINS) THEN "ValidationError"
    ELSE "ok"

(***************************************************************************)
(* Icons8Client.validate_collection_url_static (rev "src") and             *)
(* scraper.validate_collection_url (rev "root"): the same checks           *)
(***************************************************************************)
has_collection_marker_loose(path) == Contains(<<"c", "o", "l", "l", "e", "c", "t", "i", "o", "n">>, path)

has_collection_marker(path) ==
    Contains(MarkerCollection, path) \/ Contains(MarkerCollections, path)

validate_collection_url(u) ==
    IF IsEmptyUrl(u) THEN "ValidationError"
    ELSE IF u.scheme \notin ALLOWED_SCHEMES THEN "ValidationError"
    ELSE IF ~is_valid_domain(u, ALLOWED_COLLECTION_DOMAINS) THEN "ValidationError"
    ELSE IF ~has_collection_marker(u.path) THEN "ValidationError"
    ELSE "ok"

(***************************************************************************)
(* scraper.validate_size, auth.validate_credentials                        *)
(***************************************************************************)
DEFAULT_SIZE == 256
VALID_SIZES == {16, 24, 32, 48, 64, 96, 128, 256, 512}
Sizes == {DEFAULT_SIZE, 100}

validate_size(sz) == IF sz \notin VALID_SIZES THEN "ValidationError" ELSE "ok"

\* Python truthiness of an Optional[str]
Truthy(x) == x # NONE /\ x # ""

CredValues == {NONE, "", "given"}

validate_credentials_lenient(em, pw) == "ok"

validate_credentials(em, pw) ==
    IF (Truthy(em) /\ ~Truthy(pw)) \/ (Truthy(pw) /\ ~Truthy(em))
    THEN "ConfigurationError"
    ELSE "ok"

\* scrape_collection, the three validations before launch_browser, in order
scrape_validation(u, sz, em, pw) ==
    IF validate_collection_url(u) # "ok" THEN validate_collection_url(u)
    ELSE IF validate_size(sz) # "ok" THEN validate_size(sz)
    ELSE validate_credentials(em, pw)

(***************************************************************************)
(* auth.check_login_status over the three page signals                     *)
(***************************************************************************)
LoginSignals == [is_guest : BOOLEAN, is_user : BOOLEAN, icons_count : 0..1]

NoSignals == [is_guest |-> FALSE, is_user |-> FALSE, icons_count |-> 0]

check_login_status_icons_first(sig) ==
    IF sig.icons_count > 0 THEN TRUE
    ELSE IF sig.is_guest THEN FALSE
    ELSE sig.is_user

check_login_status(sig) ==
    IF sig.is_guest THEN FALSE
    ELSE IF sig.is_user THEN TRUE
    ELSE sig.icons_count > 0

\* scrape_collection, the branch after the first login check: the next step
login_branch_anonymous(is_logged_in, em, pw) ==
    IF is_logged_in THEN "scroll"
    ELSE IF Truthy(em) /\ Truthy(pw) THEN "login"
    ELSE "scroll"

login_branch(is_logged_in, em, pw) ==
    IF is_logged_in THEN "scroll"
    ELSE IF Truthy(em) /\ Truthy(pw) THEN "login"
    ELSE "AuthenticationError"

\* scrape_collection, the verification after the login: the next step
verify_login_retry(still_logged_in) ==
    IF ~still_logged_in THEN "login" ELSE "scroll"

verify_login_unchecked(still_logged_in) == "scroll"

verify_login(still_logged_in) ==
    IF ~still_logged_in THEN "AuthenticationError" ELSE "scroll"

(***************************************************************************)
(* Extraction.  An Icon is [id, fmt]: fmt is the format its URL requests.  *)
(***************************************************************************)
MaxElems == 3
MaxMatches == 3
MaxPageElems == 1

Ids == {"a", "b"}
IdOpt == Ids \cup {NONE}

SeqsUpTo(S, n) == UNION {[1..k -> S] : k \in 0..n}

Icon(id, fmt) == [id |-> id, fmt |-> fmt]

\* rev "src": what the page script returns per <img>, with the outcome of the
\* two re.search calls on src + srcset
RawImage(vis, cont, dom, q, p) ==
    [isVisible |-> vis, isIconContainer |-> cont, hasDomain |-> dom, qid |-> q, pathid |-> p]

ImgFlags == {<<TRUE, TRUE, TRUE>>, <<TRUE, FALSE, TRUE>>, <<FALSE, TRUE, TRUE>>,
             <<TRUE, TRUE, FALSE>>}
ImgIds == {<<NONE, NONE>>, <<"a", NONE>>, <<"b", NONE>>, <<NONE, "a">>, <<"b", "a">>}

RawImages == {RawImage(f[1], f[2], f[3], m[1], m[2]) : f \in ImgFlags, m \in ImgIds}

\* id_match: [?&]id=... first, else /icon/.../
id_match(img) == IF img.qid # NONE THEN img.qid ELSE img.pathid

has_explicit_containers(raw_images) ==
    \E i \in 1..Len(raw_images) : raw_images[i].isIconContainer

\* the `continue` tests of the loop body
robust_skips(img, explicit) ==
    \/ ~img.isVisible
    \/ (explicit /\ ~img.isIconContainer)
    \/ ~img.hasDomain
    \/ id_match(img) = NONE

RECURSIVE robust_loop(_, _, _, _)
robust_loop(raw_images, i, icons, seen_ids) ==
    IF i > Len(raw_images) THEN icons
    ELSE LET img == raw_images[i]
             explicit == has_explicit_containers(raw_images)
         IN  IF robust_skips(img, explicit) \/ id_match(img) \in seen_ids
             THEN robust_loop(raw_images, i + 1, icons, seen_ids)
             ELSE robust_loop(raw_images, i + 1,
                              Append(icons, Icon(id_match(img), "png")),
                              seen_ids \cup {id_match(img)})

RECURSIVE robust_loop_nodedup(_, _, _)
robust_loop_nodedup(raw_images, i, icons) ==
    IF i > Len(raw_images) THEN icons
    ELSE LET img == raw_images[i]
             explicit == has_explicit_containers(raw_images)
         IN  IF robust_skips(img, explicit)
             THEN robust_loop_nodedup(raw_images, i + 1, icons)
             ELSE robust_loop_nodedup(raw_images, i + 1,
                                      Append(icons, Icon(id_match(img), "png")))

extract_icons_robust_nodedup(raw_images) == robust_loop_nodedup(raw_images, 1, << >>)

extract_icons_robust(raw_images) == robust_loop(raw_images, 1, << >>, {})

\* rev "root": the elements of the two selectors, with the outcome of
\* re.search on srcset (None when there is no srcset)
DomImages == {e \in [srcset : BOOLEAN, qid : IdOpt] : ~e.srcset => e.qid = NONE}

RECURSIVE dom_loop(_, _, _, _)
dom_loop(icon_imgs, i, icons, seen_ids) ==
    IF i > Len(icon_imgs) THEN icons
    ELSE LET img == icon_imgs[i]
         IN  IF ~img.srcset \/ img.qid = NONE \/ img.qid \in seen_ids
             THEN dom_loop(icon_imgs, i + 1, icons, seen_ids)
             ELSE dom_loop(icon_imgs, i + 1, Append(icons, Icon(img.qid, "png")),
                           seen_ids \cup {img.qid})

extract_icons_from_dom(page) ==
    LET icon_imgs == IF Len(page.primary) = 0 THEN page.fallback ELSE page.primary
    IN  IF Len(icon_imgs) = 0 THEN << >> ELSE dom_loop(icon_imgs, 1, << >>, {})

\* both revisions: id_matches is what re.findall returns on page.content()
regex_fmt(r) == IF r = "src" THEN "svg" ELSE "png"

RECURSIVE regex_loop_nodedup(_, _, _, _, _)
regex_loop_nodedup(r, id_matches, i, icons, seen_ids) ==
    IF i > Len(id_matches) THEN icons
    ELSE regex_loop_nodedup(r, id_matches, i + 1,
                            Append(icons, Icon(id_matches[i], regex_fmt(r))), seen_ids)

RECURSIVE regex_loop(_, _, _, _, _)
regex_loop(r, id_matches, i, icons, seen_ids) ==
    IF i > Len(id_matches) THEN icons
    ELSE IF id_matches[i] \in seen_ids
         THEN regex_loop(r, id_matches, i + 1, icons, seen_ids)
         ELSE regex_loop(r, id_matches, i + 1,
                         Append(icons, Icon(id_matches[i], regex_fmt(r))),
                         seen_ids \cup {id_matches[i]})

extract_icons_via_regex_nodedup(r, id_matches) ==
    regex_loop_nodedup(r, id_matches, 1, << >>, {})

extract_icons_via_regex(r, id_matches) == regex_loop(r, id_matches, 1, << >>, {})

\* scrape_collection, after both strategies: raise or return
scrape_result_empty_ok(icons) == "returned"

scrape_result(icons) == IF icons = << >> THEN "ScrapingError" ELSE "returned"

(***************************************************************************)
(* The browser session driver as a state machine.                          *)
(*   op      which coroutine runs: "scrape" (scrape_collection) or         *)
(*           "download" (download_files_via_browser, rev "src" only)       *)
(*   pc      its position                                                  *)
(*   driver  the Playwright driver: "none", "started", "stopped"           *)
(*   ctx     the persistent browser context: "none", "open", "closed"      *)
(*   trace   the calls made on the browser so far, in order                *)
(*   outcome "running", "returned", or the kind of the exception that      *)
(*           leaves the coroutine ("Error" is an exception of Playwright,  *)
(*           "Cancelled" is asyncio.CancelledError / KeyboardInterrupt)    *)
(*   login_signals  what the page showed at the latest check_login_status: *)
(*           [is_guest, is_user, icons_count]                              *)
(*   item_results  download_files_via_browser: what each turn of the loop  *)
(*           met, in order: [goto, body, write]                            *)
(* Each await is one step; the environment decides whether it returns,     *)
(* raises or is cancelled.  The two calls of the finally block return.     *)
(***************************************************************************)
VARIABLES rev, op, pc, url, size, email, password, driver, ctx, trace, outcome,
          is_logged_in, icons, id_matches, n_icons, item, page, successful_paths,
          item_results, login_signals

(***************************************************************************)
(* The resilient fetcher, Icons8Client.download_icon:                      *)
(*   f_pc        position: "idle", "validate", "attempt", "check",         *)
(*               "mkdir", "open", "write", "replace", "cleanup", "done"    *)
(*   f_url, f_output_path, f_base_dir   the arguments (f_base_dir: is a    *)
(*               base directory given)                                     *)
(*   resolved_path    what the path validation returned                    *)
(*   attempt_number   tenacity's attempt counter                           *)
(*   requests    the targets of the HTTP requests sent so far              *)
(*   ends        what each attempt so far ended with                       *)
(*   last        the latest attempt: how it ended, the status and the      *)
(*               Content-Type it received, the message of its exception    *)
(*   content     the body download_with_retry returned                     *)
(*   f_outcome   "running", "saved" or the kind of the exception raised    *)
(*   f_message   the message of that exception                             *)
(*   final_path, temp_path   the content of the file at the final path     *)
(*               and at the temp path: "absent", "old", "partial",         *)
(*               "complete"                                                *)
(*   fs_ops      the calls made on the file system so far                  *)
(* The extraction functions applied to one input:                          *)
(*   x_pc        "idle", "call", "returned"                                *)
(*   x_fn        the function: "robust", "dom", "regex"                    *)
(*   x_in, x_out its input and the list it returned                        *)
(***************************************************************************)
VARIABLES f_pc, f_url, f_base_dir, f_output_path, resolved_path, attempt_number,
          requests, ends, last, content, f_outcome, f_message, final_path, temp_path,
          fs_ops

VARIABLES x_pc, x_fn, x_in, x_out

(***************************************************************************)
(* The streaming read of one response body (the loop over iter_content):   *)
(*   s_pc        "idle", "read", "returned", "raised"                      *)
(*   body_len    the number of bytes the server sends                      *)
(*   buffered    len(content), the bytes accumulated so far                *)
(***************************************************************************)
VARIABLES s_pc, body_len, buffered

(***************************************************************************)
(* One run of the orchestrator (run_download / async_run_download under    *)
(* main):                                                                  *)
(*   b_pc         "idle", "scrape", "download", "convert", "summary",      *)
(*                "done"                                                   *)
(*   b_format     the requested output format                              *)
(*   b_icons      len(icons), the resources the scrape returned            *)
(*   b_i          the position of the loop that is running                 *)
(*   b_log        the attempts made: [step, item, result], in order        *)
(*   b_downloaded the items whose download succeeded, in order             *)
(*   b_converted  converted / converted_count                              *)
(*   b_errors     the items recorded in errors                             *)
(*   b_summary    the final summary has been printed                      *)
(*   b_raised     the exception that ended the run ("none" if none)        *)
(*   b_exit       the exit code main returns (-1 while running)            *)
(***************************************************************************)
VARIABLES b_pc, b_format, b_icons, b_i, b_log, b_downloaded, b_converted, b_errors,
          b_summary, b_raised, b_exit

(***************************************************************************)
(* One call of an icon container writer (create_ico / create_icns of       *)
(* src/src/icons8_collector/converter.py, convert_png_to_ico of            *)
(* src/icons8_collector/converter.py):                                     *)
(*   k_pc       "idle", "call", "encode", "open", "header", "directory",   *)
(*              "data", "save", "replace", "cleanup", "done"               *)
(*   k_fn       the function called                                        *)
(*   k_images   images: a function from the sizes to the length of the    *)
(*              PNG encoding of the image of that size                     *)
(*   k_src      the source image of convert_png_to_ico: [width, height]    *)
(*   k_layers   generate_layers                                            *)
(*   k_sizes    the sizes convert_png_to_ico asks img.save for             *)
(*   k_before   what the output path held before the call                  *)
(*   k_file     what the output path holds: "absent", "old", "partial",    *)
(*              "complete"                                                 *)
(*   k_bytes    the bytes written to the output path by this call          *)
(*   k_temp     what the temp path holds                                   *)
(*   k_outcome  "running", "returned" or the kind of the exception raised  *)
(***************************************************************************)
VARIABLES k_pc, k_fn, k_images, k_src, k_layers, k_sizes, k_before, k_file, k_bytes,
          k_temp, k_outcome

(***************************************************************************)
(* State of one call of sanitize_filename and of a second call on its      *)
(* result:                                                                 *)
(*   n_pc        "call", "again", "done"; "idle" outside SpecName          *)
(*   n_name      the name argument: [kind, chars], kind "str", "None" or   *)
(*               "int", chars the characters of a string                   *)
(*   n_fallback  the fallback argument, a sequence of characters           *)
(*   n_out       the returned name                                         *)
(*   n_again     sanitize_filename(n_out, n_fallback)                      *)
(***************************************************************************)
VARIABLES n_pc, n_name, n_fallback, n_out, n_again

(***************************************************************************)
(* State of one error on its way to the operator or the log:               *)
(*   e_pc       "raise", "caught", "wrapped", "shown"; "idle" outside      *)
(*              SpecReport                                                 *)
(*   e_kind     the class of the exception: "Icons8CollectorError" (the    *)
(*              package's own hierarchy) or "Exception" (any other)        *)
(*   e_text     the text the exception was raised with                     *)
(*   e_message  what str(e) gives                                          *)
(*   e_site     the handler that printed or logged it                      *)
(*   e_shown    the text that handler printed or logged                    *)
(***************************************************************************)
VARIABLES e_pc, e_kind, e_text, e_message, e_site, e_shown

(***************************************************************************)
(* State of the user-agent cache over a sequence of browser launches:      *)
(*   u_pc        "start", "read", "generate", "launched"; "idle" outside   *)
(*               SpecLaunch                                                *)
(*   u_file      what user_agent.txt holds, or AbsentFile                  *)
(*   u_ua        the user_agent of the launch under way                    *)
(*   u_how       how the launch under way got it: "read", "read_failed",   *)
(*               "wrote", "write_failed"                                   *)
(*   u_launches  one record per finished launch: the string it used, how   *)
(*               it got it, and the file it left                           *)
(***************************************************************************)
VARIABLES u_pc, u_file, u_ua, u_how, u_launches

(***************************************************************************)
(* State of one call of the CLI's validate_size:                           *)
(*   z_pc      "call", "done"; "idle" outside SpecSize                     *)
(*   z_size    the argument                                                *)
(*   z_result  the size returned, or 0 when ValueError was raised          *)
(* State of one call of human_scroll:                                      *)
(*   h_pc      "scroll", "check", "done"; "idle" outside SpecScroll        *)
(*   h_i       the loop variable i                                         *)
(*   h_scrolls the number of downward window.scrollBy calls made           *)
(*   h_last    last_height                                                 *)
(*   h_stable  stable_count_checks                                         *)
(*   h_seen    the heights read so far: the one before the loop, then one  *)
(*             per check                                                   *)
(*   h_why     why the loop ended: "running", "break", "exhausted"         *)
(* State of one derivation of a display name from an alt text:             *)
(*   a_pc      "call", "done"; "idle" outside SpecAlt                      *)
(*   a_alt     the alt attribute, a sequence of pieces (empty when the     *)
(*             attribute is missing or empty)                              *)
(*   a_name    the name given to the Icon                                  *)
(***************************************************************************)
\* r_: one run of async_run_download; w_: the files one download loop writes
VARIABLES r_pc, r_ctx, r_pending, r_icons, r_format, r_exit,
          w_pc, w_names, w_i, w_disk, w_succeeded

VARIABLES z_pc, z_size, z_result, h_pc, h_i, h_scrolls, h_last, h_stable, h_seen, h_why,
          a_pc, a_alt, a_name

fetchVars == <<f_pc, f_url, f_base_dir, f_output_path, resolved_path, attempt_number,
               requests, ends, last, content, f_outcome, f_message, final_path, temp_path,
               fs_ops>>

extractVars == <<x_pc, x_fn, x_in, x_out>>

streamVars == <<s_pc, body_len, buffered>>

batchVars == <<b_pc, b_format, b_icons, b_i, b_log, b_downloaded, b_converted, b_errors,
               b_summary, b_raised, b_exit>>

packVars == <<k_pc, k_fn, k_images, k_src, k_layers, k_sizes, k_before, k_file, k_bytes,
              k_temp, k_outcome>>

nameVars == <<n_pc, n_name, n_fallback, n_out, n_again>>

reportVars == <<e_pc, e_kind, e_text, e_message, e_site, e_shown>>

launchVars == <<u_pc, u_file, u_ua, u_how, u_launches>>


NoName == [kind |-> "None", chars |-> << >>]

NameIdle ==
    /\ n_pc = "idle"
    /\ n_name = NoName
    /\ n_fallback = << >>
    /\ n_out = << >>
    /\ n_again = << >>

ReportIdle ==
    /\ e_pc = "idle"
    /\ e_kind = NONE
    /\ e_text = << >>
    /\ e_message = << >>
    /\ e_site = NONE
    /\ e_shown = << >>

AbsentFile == [text |-> "absent", tail |-> ""]

sizeVars == <<z_pc, z_size, z_result>>

scrollVars == <<h_pc, h_i, h_scrolls, h_last, h_stable, h_seen, h_why>>

altVars == <<a_pc, a_alt, a_name>>

runVars == <<r_pc, r_ctx, r_pending, r_icons, r_format, r_exit>>

fileVars == <<w_pc, w_names, w_i, w_disk, w_succeeded>>

stepVars == <<sizeVars, scrollVars, altVars, runVars, fileVars>>

others == <<fetchVars, extractVars, streamVars, batchVars, packVars, nameVars, reportVars,
            launchVars, stepVars>>

SizeIdle == z_pc = "idle" /\ z_size = 0 /\ z_result = 0

ScrollIdle ==
    /\ h_pc = "idle"
    /\ h_i = 0
    /\ h_scrolls = 0
    /\ h_last = 0
    /\ h_stable = 0
    /\ h_seen = << >>
    /\ h_why = "running"

AltIdle == a_pc = "idle" /\ a_alt = << >> /\ a_name = << >>

Sessions == {"scrape", "download"}

RunIdle ==
    /\ r_pc = <<"idle", "idle">>
    /\ r_ctx = [s \in Sessions |-> "none"]
    /\ r_pending = "none"
    /\ r_icons = 0
    /\ r_format = "ico"
    /\ r_exit = "running"

FileIdle ==
    /\ w_pc = "idle"
    /\ w_names = << >>
    /\ w_i = 0
    /\ w_disk = {}
    /\ w_succeeded = << >>

StepsIdle == SizeIdle /\ ScrollIdle /\ AltIdle /\ RunIdle /\ FileIdle

LaunchIdle ==
    /\ u_pc = "idle"
    /\ u_file = AbsentFile
    /\ u_ua = ""
    /\ u_how = "none"
    /\ u_launches = << >>


NoSource == [width |-> 0, height |-> 0]

PackIdle ==
    /\ k_pc = "idle"
    /\ k_fn = NONE
    /\ k_images = << >>
    /\ k_src = NoSource
    /\ k_layers = FALSE
    /\ k_sizes = {}
    /\ k_before = "absent"
    /\ k_file = "absent"
    /\ k_bytes = << >>
    /\ k_temp = "absent"
    /\ k_outcome = "running"

BatchIdle ==
    /\ b_pc = "idle"
    /\ b_format = NONE
    /\ b_icons = 0
    /\ b_i = 0
    /\ b_log = << >>
    /\ b_downloaded = << >>
    /\ b_converted = 0
    /\ b_errors = << >>
    /\ b_summary = FALSE
    /\ b_raised = "none"
    /\ b_exit = -1

StreamIdle ==
    /\ s_pc = "idle"
    /\ body_len = 0
    /\ buffered = 0

FetchIdle ==
    /\ f_pc = "idle"
    /\ f_url = NONE
    /\ f_base_dir = FALSE
    /\ f_output_path = NONE
    /\ resolved_path = NONE
    /\ attempt_number = 0
    /\ requests = << >>
    /\ ends = << >>
    /\ last = NONE
    /\ content = NONE
    /\ f_outcome = "running"
    /\ f_message = ""
    /\ final_path = "absent"
    /\ temp_path = "absent"
    /\ fs_ops = << >>

ExtractIdle ==
    /\ x_pc = "idle"
    /\ x_fn = NONE
    /\ x_in = << >>
    /\ x_out = << >>

scraperVars == <<rev, op, pc, url, size, email, password, driver, ctx, trace, outcome,
                 is_logged_in, icons, id_matches, n_icons, item, page, successful_paths,
                 item_results, login_signals>>

toolVars == <<nameVars, reportVars, launchVars, stepVars>>

notFetch == <<scraperVars, extractVars, streamVars, batchVars, packVars, toolVars>>
notExtract == <<scraperVars, fetchVars, streamVars, batchVars, packVars, toolVars>>
notStream == <<scraperVars, fetchVars, extractVars, batchVars, packVars, toolVars>>
notBatch == <<scraperVars, fetchVars, extractVars, streamVars, packVars, toolVars>>
notPack == <<scraperVars, fetchVars, extractVars, streamVars, batchVars, toolVars>>
notName == <<scraperVars, fetchVars, extractVars, streamVars, batchVars, packVars,
             reportVars, launchVars, stepVars>>
notReport == <<scraperVars, fetchVars, extractVars, streamVars, batchVars, packVars,
               nameVars, launchVars, stepVars>>
notLaunch == <<scraperVars, fetchVars, extractVars, streamVars, batchVars, packVars,
               nameVars, reportVars, stepVars>>
program == <<scraperVars, fetchVars, extractVars, streamVars, batchVars, packVars,
             nameVars, reportVars, launchVars>>
notSize == <<program, scrollVars, altVars, runVars, fileVars>>
notScroll == <<program, sizeVars, altVars, runVars, fileVars>>
notAlt == <<program, sizeVars, scrollVars, runVars, fileVars>>
notRun == <<program, sizeVars, scrollVars, altVars, fileVars>>
notFile == <<program, sizeVars, scrollVars, altVars, runVars>>

MaxIcons == 2

AwaitOutcomes == {"ok", "Error", "Cancelled"}

DefaultUrl == [scheme |-> "https", netloc |-> BASE_DOMAIN, path |-> PathCollection]

ScraperIdle ==
    /\ op = "none"
    /\ pc = "idle"
    /\ url = NONE
    /\ size = DEFAULT_SIZE
    /\ email = NONE
    /\ password = NONE
    /\ n_icons = 0
    /\ driver = "none"
    /\ ctx = "none"
    /\ trace = << >>
    /\ outcome = "running"
    /\ is_logged_in = NONE
    /\ login_signals = NoSignals
    /\ icons = << >>
    /\ id_matches = << >>
    /\ item = 0
    /\ page = "none"
    /\ successful_paths = << >>
    /\ item_results = << >>

InitScraper ==
    /\ FetchIdle
    /\ ExtractIdle
    /\ StreamIdle
    /\ BatchIdle
    /\ PackIdle
    /\ NameIdle
    /\ ReportIdle
    /\ LaunchIdle
    /\ StepsIdle
    /\ rev \in Revisions
    /\ op \in {"scrape", "download"}
    /\ op = "download" => rev = "src"
    /\ url \in (IF op = "scrape" THEN Urls ELSE {DefaultUrl})
    /\ size \in (IF op = "scrape" THEN Sizes ELSE {DEFAULT_SIZE})
    /\ email \in (IF op = "scrape" THEN CredValues ELSE {NONE})
    /\ password \in (IF op = "scrape" THEN CredValues ELSE {NONE})
    /\ n_icons \in (IF op = "download" THEN 0..MaxIcons ELSE {0})
    /\ pc = IF op = "scrape" THEN "validate" ELSE "start_driver"
    /\ driver = "none"
    /\ ctx = "none"
    /\ trace = << >>
    /\ outcome = "running"
    /\ is_logged_in = NONE
    /\ login_signals = NoSignals
    /\ icons = << >>
    /\ id_matches = << >>
    /\ item = 0
    /\ page = "none"
    /\ successful_paths = << >>
    /\ item_results = << >>

inputs == <<rev, op, url, size, email, password, n_icons>>
results == <<is_logged_in, login_signals, icons, id_matches>>
loopVars == <<item, page, successful_paths, item_results>>

\* an exception leaves the coroutine where no try block is open
Propagate(kind) ==
    /\ outcome' = kind
    /\ pc' = "done"

\* an exception (or the return) inside the try block: the finally block runs
Leave(kind) ==
    /\ outcome' = kind
    /\ pc' = "finally_close"

\* scrape_collection: validate_collection_url, validate_size, validate_credentials
Validate ==
    /\ pc = "validate"
    /\ LET r == scrape_validation(url, size, email, password)
       IN  IF r = "ok"
           THEN pc' = "start_driver" /\ outcome' = outcome
           ELSE Propagate(r)
    /\ UNCHANGED <<others, inputs, results, loopVars, driver, ctx, trace>>

\* launch_browser: import playwright; p = await async_playwright().start()
StartDriver ==
    /\ pc = "start_driver"
    /\ \E o \in AwaitOutcomes \cup {"ImportError"} :
          CASE o = "ok" ->
                /\ driver' = "started"
                /\ trace' = Append(trace, "start")
                /\ pc' = "launch_chrome"
                /\ outcome' = outcome
            [] o = "ImportError" ->
                /\ Propagate("BrowserError")
                /\ UNCHANGED <<driver, trace>>
            [] OTHER ->
                /\ Propagate(o)
                /\ UNCHANGED <<driver, trace>>
    /\ UNCHANGED <<others, inputs, results, loopVars, ctx>>

\* where launch_browser goes once a context is open
after_context_no_script(r) == "return"

after_context(r) == IF r = "src" THEN "init_script" ELSE "return"

\* the statement after `context, playwright_instance = await launch_browser(...)`
EnterTry == IF op = "scrape" THEN "new_page" ELSE "loop"

AfterContext == IF after_context(rev) = "return" THEN EnterTry ELSE "init_script"

\* launch_browser: launch_persistent_context(channel="chrome")
LaunchChrome ==
    /\ pc = "launch_chrome"
    /\ \E o \in AwaitOutcomes :
          CASE o = "ok" ->
                /\ ctx' = "open"
                /\ trace' = Append(trace, "launch_chrome")
                /\ pc' = AfterContext
                /\ outcome' = outcome
            [] o = "Error" ->
                /\ pc' = "launch_chromium"
                /\ trace' = Append(trace, "chrome_failed")
                /\ UNCHANGED <<ctx, outcome>>
            [] OTHER ->
                /\ Propagate(o)
                /\ UNCHANGED <<ctx, trace>>
    /\ UNCHANGED <<others, inputs, results, loopVars, driver>>

\* launch_browser: launch_persistent_context() without a channel; on failure
\* await p.stop() and raise BrowserError
LaunchChromium ==
    /\ pc = "launch_chromium"
    /\ \E o \in AwaitOutcomes :
          CASE o = "ok" ->
                /\ ctx' = "open"
                /\ trace' = Append(trace, "launch_chromium")
                /\ pc' = AfterContext
                /\ UNCHANGED <<driver, outcome>>
            [] o = "Error" ->
                /\ driver' = "stopped"
                /\ trace' = Append(trace, "stop")
                /\ Propagate("BrowserError")
                /\ UNCHANGED ctx
            [] OTHER ->
                /\ Propagate(o)
                /\ UNCHANGED <<ctx, trace, driver>>
    /\ UNCHANGED <<others, inputs, results, loopVars>>

\* launch_browser (rev "src"): await context.add_init_script(...), outside any try
InitScript ==
    /\ pc = "init_script"
    /\ \E o \in AwaitOutcomes :
          IF o = "ok"
          THEN /\ pc' = EnterTry
               /\ trace' = Append(trace, "add_init_script")
               /\ outcome' = outcome
          ELSE /\ Propagate(o)
               /\ UNCHANGED trace
    /\ UNCHANGED <<others, inputs, results, loopVars, driver, ctx>>

\* scrape_collection: page = await context.new_page()
NewPage ==
    /\ pc = "new_page"
    /\ \E o \in AwaitOutcomes :
          IF o = "ok"
          THEN /\ pc' = "goto"
               /\ trace' = Append(trace, "new_page")
               /\ outcome' = outcome
          ELSE /\ Leave(o)
               /\ UNCHANGED trace
    /\ UNCHANGED <<others, inputs, results, loopVars, driver, ctx>>

\* scrape_collection: the first page.goto(url) and the test of its response
\* what page.goto returned: no response, a response with .ok, one without
GotoResponses == {"None", "ok", "not_ok"}

GotoEvent(response) == IF response = "ok" THEN "goto" ELSE "goto:" \o response

goto_result_unchecked(response) == "ok"

\* if response is None or not response.ok: raise ScrapingError
goto_result(response) ==
    IF response = "None" \/ response # "ok" THEN "ScrapingError" ELSE "ok"

Goto ==
    /\ pc = "goto"
    /\ \/ \E response \in GotoResponses :
            /\ trace' = Append(trace, GotoEvent(response))
            /\ IF goto_result(response) = "ok"
               THEN pc' = "check_login" /\ outcome' = outcome
               ELSE Leave(goto_result(response))
       \/ \E o \in {"Error", "Cancelled"} :
            /\ Leave(o)
            /\ UNCHANGED trace
    /\ UNCHANGED <<others, inputs, results, loopVars, driver, ctx>>

\* the trace entry of a login check, with what it returned
CheckEvent(b) == IF b THEN "check_login_status=True" ELSE "check_login_status=False"

\* scrape_collection: is_logged_in = await check_login_status(page), and the branch
CheckLogin ==
    /\ pc = "check_login"
    /\ \/ \E sig \in LoginSignals :
            LET next == login_branch(check_login_status(sig), email, password)
            IN  /\ is_logged_in' = check_login_status(sig)
                /\ login_signals' = sig
                /\ trace' = Append(trace, CheckEvent(check_login_status(sig)))
                /\ IF next = "AuthenticationError"
                   THEN Leave(next)
                   ELSE pc' = next /\ outcome' = outcome
       \/ \E o \in {"Error", "Cancelled"} :
            /\ Leave(o)
            /\ UNCHANGED <<trace, is_logged_in, login_signals>>
    /\ UNCHANGED <<others, inputs, icons, id_matches, loopVars, driver, ctx>>

\* scrape_collection: await perform_login(page, email, password)
PerformLogin ==
    /\ pc = "login"
    /\ \E o \in AwaitOutcomes \cup {"AuthenticationError"} :
          /\ trace' = Append(trace, "perform_login")
          /\ IF o = "ok"
             THEN pc' = "reload" /\ outcome' = outcome
             ELSE Leave(o)
    /\ UNCHANGED <<others, inputs, results, loopVars, driver, ctx>>

\* scrape_collection: the second page.goto(url); its response is not looked at
Reload ==
    /\ pc = "reload"
    /\ \E o \in AwaitOutcomes :
          IF o = "ok"
          THEN /\ pc' = "verify_login"
               /\ trace' = Append(trace, "goto")
               /\ outcome' = outcome
          ELSE /\ Leave(o)
               /\ UNCHANGED trace
    /\ UNCHANGED <<others, inputs, results, loopVars, driver, ctx>>

\* scrape_collection: if not await check_login_status(page): raise
VerifyLogin ==
    /\ pc = "verify_login"
    /\ \/ \E sig \in LoginSignals :
            LET next == verify_login(check_login_status(sig))
            IN  /\ is_logged_in' = check_login_status(sig)
                /\ login_signals' = sig
                /\ trace' = Append(trace, CheckEvent(check_login_status(sig)))
                /\ IF next = "AuthenticationError"
                   THEN Leave(next)
                   ELSE pc' = next /\ outcome' = outcome
       \/ \E o \in {"Error", "Cancelled"} :
            /\ Leave(o)
            /\ UNCHANGED <<trace, is_logged_in, login_signals>>
    /\ UNCHANGED <<others, inputs, icons, id_matches, loopVars, driver, ctx>>

\* scrape_collection: the mouse move (its exceptions are swallowed) and
\* human_scroll (rev "src"); wait_for_selector (its exceptions are swallowed),
\* page.title and scroll_to_load_icons (rev "root")
Scroll ==
    /\ pc = "scroll"
    /\ \E o \in AwaitOutcomes :
          IF o = "ok"
          THEN /\ pc' = "extract"
               /\ trace' = Append(trace, "scroll")
               /\ outcome' = outcome
          ELSE /\ Leave(o)
               /\ UNCHANGED trace
    /\ UNCHANGED <<others, inputs, results, loopVars, driver, ctx>>

\* the page as the DOM strategy of each revision sees it
DomPages(r) ==
    IF r = "src" THEN SeqsUpTo(RawImages, MaxPageElems)
    ELSE [primary : SeqsUpTo(DomImages, MaxPageElems),
          fallback : SeqsUpTo(DomImages, MaxPageElems)]

extract_dom(r, dom) ==
    IF r = "src" THEN extract_icons_robust(dom) ELSE extract_icons_from_dom(dom)

\* scrape_collection: what follows a non-empty list
AfterExtraction == IF rev = "src" THEN "session" ELSE "return"

Finish(found) ==
    IF scrape_result(found) = "returned"
    THEN IF AfterExtraction = "return"
         THEN Leave("returned")
         ELSE pc' = "session" /\ outcome' = outcome
    ELSE Leave(scrape_result(found))

\* scrape_collection: `if not icons:` selects the regex fallback
needs_fallback_never(found) == FALSE

needs_fallback(found) == found = << >>

\* scrape_collection: icons = await extract_icons_robust / extract_icons_from_dom
ExtractDom ==
    /\ pc = "extract"
    /\ \/ \E dom \in DomPages(rev) :
            /\ icons' = extract_dom(rev, dom)
            /\ trace' = Append(trace, "extract_dom")
            /\ IF needs_fallback(icons')
               THEN pc' = "extract_regex" /\ outcome' = outcome
               ELSE Finish(icons')
       \/ \E o \in {"Error", "Cancelled"} :
            /\ Leave(o)
            /\ UNCHANGED <<trace, icons>>
    /\ UNCHANGED <<others, inputs, is_logged_in, login_signals, id_matches, loopVars, driver, ctx>>

\* scrape_collection: icons = await extract_icons_via_regex(page, size), then
\* `if not icons: raise ScrapingError`
ExtractRegex ==
    /\ pc = "extract_regex"
    /\ \/ \E found \in SeqsUpTo(Ids, MaxMatches) :
            /\ id_matches' = found
            /\ icons' = extract_icons_via_regex(rev, found)
            /\ trace' = Append(trace, "extract_regex")
            /\ Finish(icons')
       \/ \E o \in {"Error", "Cancelled"} :
            /\ Leave(o)
            /\ UNCHANGED <<trace, icons, id_matches>>
    /\ UNCHANGED <<others, inputs, is_logged_in, login_signals, loopVars, driver, ctx>>

\* scrape_collection (rev "src"): context.cookies(), page.evaluate(userAgent), return
Session ==
    /\ pc = "session"
    /\ \E o \in AwaitOutcomes :
          /\ Leave(IF o = "ok" THEN "returned" ELSE o)
          /\ trace' = IF o = "ok" THEN Append(trace, "cookies") ELSE trace
    /\ UNCHANGED <<others, inputs, results, loopVars, driver, ctx>>

\* finally: await context.close()
FinallyClose ==
    /\ pc = "finally_close"
    /\ ctx' = "closed"
    /\ trace' = Append(trace, "close")
    /\ pc' = "finally_stop"
    /\ UNCHANGED <<others, inputs, results, loopVars, driver, outcome>>

\* finally: await playwright_instance.stop()
FinallyStop ==
    /\ pc = "finally_stop"
    /\ driver' = "stopped"
    /\ trace' = Append(trace, "stop")
    /\ pc' = "done"
    /\ UNCHANGED <<others, inputs, results, loopVars, ctx, outcome>>

\* download_files_via_browser: for i, icon in enumerate(icons, 1), and the return
LoopHead ==
    /\ pc = "loop"
    /\ IF item = n_icons
       THEN Leave("returned") /\ UNCHANGED <<item, page>>
       ELSE /\ item' = item + 1
            /\ page' = "none"
            /\ pc' = "item_new_page"
            /\ outcome' = outcome
    /\ UNCHANGED <<others, inputs, results, successful_paths, item_results, driver, ctx,
                   trace>>

\* what one turn of the loop met: the result of page.goto ("ok" is a response
\* with response.ok), the body read, and the write of the file
ItemOutcome(goto, body, write) == [goto |-> goto, body |-> body, write |-> write]

NoPage == ItemOutcome("no_page", "none", "none")

\* download_files_via_browser: page = await context.new_page(); `except
\* Exception` takes an error, a cancellation goes through both finally blocks
ItemNewPage ==
    /\ pc = "item_new_page"
    /\ \E o \in AwaitOutcomes :
          CASE o = "ok" ->
                /\ page' = "open"
                /\ trace' = Append(trace, "new_page")
                /\ pc' = "item_goto"
                /\ outcome' = outcome
                /\ UNCHANGED item_results
            [] o = "Error" ->
                /\ pc' = "item_finally"
                /\ item_results' = Append(item_results, NoPage)
                /\ UNCHANGED <<page, trace, outcome>>
            [] OTHER ->
                /\ outcome' = o
                /\ pc' = "item_finally"
                /\ item_results' = Append(item_results, NoPage)
                /\ UNCHANGED <<page, trace>>
    /\ UNCHANGED <<others, inputs, results, item, successful_paths, driver, ctx>>

\* download_files_via_browser: sleep, page.goto(icon.url), response.body(),
\* the PNG signature test and the write
ItemOutcomes ==
    {ItemOutcome("ok", "png", "ok"), ItemOutcome("ok", "png", "OSError"),
     ItemOutcome("ok", "other", "none"), ItemOutcome("ok", "Error", "none"),
     ItemOutcome("bad_status", "none", "none"), ItemOutcome("Error", "none", "none"),
     ItemOutcome("Cancelled", "none", "none")}

\* the path is appended after the write, in the branch of a response that is ok
\* and of a body that starts with the PNG signature
appended_always(o) == TRUE

appended(o) == o.goto = "ok" /\ o.body = "png" /\ o.write = "ok"

ItemGoto ==
    /\ pc = "item_goto"
    /\ \E o \in ItemOutcomes :
          /\ trace' = Append(trace, "goto")
          /\ item_results' = Append(item_results, o)
          /\ successful_paths' =
                IF appended(o) THEN Append(successful_paths, item) ELSE successful_paths
          /\ outcome' = IF o.goto = "Cancelled" THEN "Cancelled" ELSE outcome
    /\ pc' = "item_finally"
    /\ UNCHANGED <<others, inputs, results, item, page, driver, ctx>>

\* download_files_via_browser: finally: if page: await page.close()
ItemFinally ==
    /\ pc = "item_finally"
    /\ IF page = "open"
       THEN \E o \in AwaitOutcomes :
               /\ trace' = Append(trace, "page_close")
               /\ page' = IF o = "ok" THEN "closed" ELSE page
               /\ IF o = "ok" /\ outcome = "running"
                  THEN pc' = "loop" /\ outcome' = outcome
                  ELSE Leave(IF o = "ok" THEN outcome ELSE o)
       ELSE /\ IF outcome = "running"
               THEN pc' = "loop" /\ outcome' = outcome
               ELSE Leave(outcome)
            /\ UNCHANGED <<page, trace>>
    /\ UNCHANGED <<others, inputs, results, item, successful_paths, item_results, driver,
                   ctx>>

(***************************************************************************)
(* The resilient fetcher: Icons8Client.download_icon and                   *)
(* download_with_retry under tenacity's retry decorator (rev "src" and     *)
(* rev "root"), and the function download_icon of downloader.py (rev       *)
(* "downloader"), which makes one attempt.                                 *)
(***************************************************************************)
MAX_RETRIES == 3
MaxRedirects == 1

FetchRevisions == Revisions \cup {"downloader"}

MIN_IMAGE_SIZE(r) == IF r = "src" THEN 50 ELSE 100

\* what one HTTP exchange can give: an exception of requests, or a response
ErrorStatuses == {404, 429, 500, 502, 503, 504}
ContentTypes == {"image/png", "image/svg+xml", "application/xml", "text/html", ""}
Bodies == [len : {10, 90, 200}, kind : {"png", "svg", "other"}]
NoBody == [len |-> 0, kind |-> "other"]

Response(st, ct, decl, str, b) ==
    [exc |-> NONE, status |-> st, ctype |-> ct, declared |-> decl, stream |-> str, body |-> b]

\* session.get raised instead of returning a response
Raised(e) ==
    [exc |-> e, status |-> 0, ctype |-> "", declared |-> "none", stream |-> "fits", body |-> NoBody]

Replies ==
    {Raised(e) : e \in {"Timeout", "ConnectionError", "RequestException"}}
    \cup {Response(st, "text/html", "none", "fits", NoBody) : st \in ErrorStatuses}
    \cup {Response(st, ct, "none", "fits", b) :
            st \in {200, 302}, ct \in ContentTypes, b \in Bodies}
    \cup {Response(200, "image/png", decl, str, [len |-> 200, kind |-> "png"]) :
            decl \in {"fits", "too_large", "invalid"}, str \in {"fits", "exceeds"}}

IsResponse(resp) == resp.exc = NONE

\* 'image' in content_type.lower(), 'xml' in content_type.lower()
CtHasImage(ct) == ct \in {"image/png", "image/svg+xml"}
CtHasXml(ct) == ct \in {"image/svg+xml", "application/xml"}

content_type_any(r, ct) == TRUE

content_type_ok(r, ct) ==
    IF r = "src" THEN CtHasImage(ct) \/ CtHasXml(ct) ELSE CtHasImage(ct)

\* session.get(...): rev "root" and rev "downloader" pass allow_redirects=False,
\* rev "src" leaves the default of requests, which follows redirects
follows_redirects(r) == r = "src"

\* Icons8Client._is_retriable_status_code
is_retriable_status_code(st) == st \in {429, 500, 502, 503, 504}

\* the messages of the exceptions (their fixed part)
MsgHttp == "HTTP error"
MsgRequest == "Failed to download"
MsgNotImage == "Response is not an image"
MsgTooLarge == "File too large"
MsgExceeds == "File exceeds maximum size"
MsgTooSmall == "Response content too small"
MsgNotPng == "Downloaded content is not a valid PNG file"
MsgPngNotSvg == "Server returned a PNG file, but SVG was expected"
MsgNetwork == "Network error after retries"
MsgTimedOut == "Download timed out"
MsgConnection == "Connection error while downloading"
MsgWrite == "Failed to write file to disk"

\* one run of the body of download_with_retry: "content" or the exception raised
attempt_result(r, resp) ==
    IF resp.exc \in {"Timeout", "ConnectionError"} THEN resp.exc
    ELSE IF resp.exc = "RequestException" THEN "DownloadError"
    ELSE IF resp.status >= 400 THEN "DownloadError"
    ELSE IF ~content_type_ok(r, resp.ctype) THEN "DownloadError"
    ELSE IF resp.declared = "too_large" THEN "DownloadError"
    ELSE IF resp.stream = "exceeds" THEN "DownloadError"
    ELSE "content"

\* the message of the exception that run raises ("" when it returns)
attempt_message(r, resp) ==
    IF resp.exc \in {"Timeout", "ConnectionError"} THEN resp.exc
    ELSE IF resp.exc = "RequestException" THEN MsgRequest
    ELSE IF resp.status >= 400 THEN MsgHttp
    ELSE IF ~content_type_ok(r, resp.ctype) THEN MsgNotImage
    ELSE IF resp.declared = "too_large" THEN MsgTooLarge
    ELSE IF resp.stream = "exceeds" THEN MsgExceeds
    ELSE ""

\* retry=retry_if_exception_type(...); downloader.py has no retry
retry_if_exception_type(r, exc) ==
    IF r = "src" THEN exc \in {"Timeout", "ConnectionError", "DownloadError"}
    ELSE IF r = "root" THEN exc \in {"Timeout", "ConnectionError"}
    ELSE FALSE

\* stop=stop_after_attempt(MAX_RETRIES)
stop_after_four(n) == n >= MAX_RETRIES + 1

stop_after_attempt(n) == n >= MAX_RETRIES

\* download_icon: except (requests.Timeout, requests.ConnectionError);
\* downloader.py: the except clauses of its one attempt
terminal_message(r, l) ==
    IF l.kind = "DownloadError" THEN l.message
    ELSE IF r = "downloader"
         THEN (IF l.kind = "Timeout" THEN MsgTimedOut ELSE MsgConnection)
         ELSE MsgNetwork

(***************************************************************************)
(* Output paths.  A path is [abs, dirs, stem, suffix]; the process runs in *)
(* Cwd.                                                                    *)
(***************************************************************************)
Path(abs, dirs, stem, suffix) == [abs |-> abs, dirs |-> dirs, stem |-> stem, suffix |-> suffix]

Cwd == <<"work">>
BaseDir == Path(TRUE, <<"work", "out">>, "", "")

OutputPaths ==
    { Path(FALSE, <<"out">>, "a", ".png"),
      Path(FALSE, <<"out", "sub", "..">>, "a", ".png"),
      Path(TRUE, <<"work", "out", "sub">>, "a", ".svg"),
      Path(FALSE, <<"out">>, "a", ".tmp"),
      Path(FALSE, <<"out", "..", "..", "etc">>, "a", ".png"),
      Path(TRUE, <<"etc">>, "a", ".png"),
      Path(FALSE, << >>, "a", ".png") }

RECURSIVE normalise(_, _, _)
\* ".." removes the directory before it (the root has none)
normalise(dirs, i, acc) ==
    IF i > Len(dirs) THEN acc
    ELSE IF dirs[i] = ".."
         THEN normalise(dirs, i + 1, IF acc = << >> THEN acc ELSE SubSeq(acc, 1, Len(acc) - 1))
         ELSE normalise(dirs, i + 1, Append(acc, dirs[i]))

\* Path.resolve(): absolute, without ".."
resolve(p) ==
    [p EXCEPT !.abs = TRUE,
              !.dirs = normalise(IF p.abs THEN p.dirs ELSE Cwd \o p.dirs, 1, << >>)]

\* resolved_path.relative_to(resolved_base) does not raise ValueError
relative_to(p, base) ==
    /\ Len(base.dirs) <= Len(p.dirs)
    /\ \A i \in 1..Len(base.dirs) : p.dirs[i] = base.dirs[i]

\* '..' in path_str or path_str.startswith('/')
suspicious(p) == p.abs \/ \E i \in 1..Len(p.dirs) : p.dirs[i] = ".."

\* Icons8Client._validate_output_path, validate_output_path of downloader.py:
\* "ok" or the error kind raised
validate_output_path_unchecked(r, output_path, base_dir) == "ok"

validate_output_path(r, output_path, base_dir) ==
    IF base_dir /\ ~relative_to(resolve(output_path), resolve(BaseDir)) THEN "ValidationError"
    ELSE IF r # "src" /\ suspicious(output_path) /\ base_dir
            /\ ~relative_to(resolve(output_path), resolve(BaseDir)) THEN "ValidationError"
    ELSE "ok"

\* resolved_path.with_suffix('.tmp')
with_suffix(p, suffix) == [p EXCEPT !.suffix = suffix]

\* download_icon: the checks on the returned content
accept_content(r, b) ==
    IF b.len < MIN_IMAGE_SIZE(r) THEN "DownloadError"
    ELSE IF r # "src"
         THEN IF b.kind # "png" THEN "DownloadError" ELSE "ok"
         ELSE IF b.kind # "svg" /\ b.kind = "png" THEN "DownloadError" ELSE "ok"

content_message(r, b) ==
    IF b.len < MIN_IMAGE_SIZE(r) THEN MsgTooSmall
    ELSE IF r # "src" THEN MsgNotPng
    ELSE MsgPngNotSvg

NoAttempt == [kind |-> NONE, status |-> 0, ctype |-> "", message |-> ""]

\* the URLs download_icon is called with: the path plays no part in it
FetchUrls == {u \in Urls : u.path = PathX}

DefaultFetchUrl == [scheme |-> "https", netloc |-> IMAGE_DOMAIN, path |-> PathX]
DefaultOutputPath == Path(FALSE, <<"out">>, "a", ".png")

\* the temp path and the final path are one file
SameFile(p) == with_suffix(resolve(p), ".tmp") = resolve(p)

InitFetch ==
    /\ ScraperIdle
    /\ ExtractIdle
    /\ StreamIdle
    /\ BatchIdle
    /\ PackIdle
    /\ NameIdle
    /\ ReportIdle
    /\ LaunchIdle
    /\ StepsIdle
    /\ rev \in FetchRevisions
    /\ f_pc = "validate"
    /\ \/ f_url \in FetchUrls /\ f_output_path = DefaultOutputPath /\ f_base_dir = FALSE
       \/ f_url = DefaultFetchUrl /\ f_output_path \in OutputPaths /\ f_base_dir \in BOOLEAN
    /\ resolved_path = NONE
    /\ attempt_number = 0
    /\ requests = << >>
    /\ ends = << >>
    /\ last = NoAttempt
    /\ content = NoBody
    /\ f_outcome = "running"
    /\ f_message = ""
    /\ final_path \in {"absent", "old"}
    /\ temp_path = IF SameFile(f_output_path) THEN final_path ELSE "absent"
    /\ fs_ops = << >>

fetchArgs == <<f_url, f_base_dir, f_output_path>>
files == <<final_path, temp_path, fs_ops>>
progress == <<attempt_number, requests, ends, last, content>>

\* download_icon: validate_download_url, then _validate_output_path
FetchValidate ==
    /\ f_pc = "validate"
    /\ LET r == IF validate_download_url(f_url) # "ok" THEN validate_download_url(f_url)
                ELSE validate_output_path(rev, f_output_path, f_base_dir)
       IN  IF r = "ok"
           THEN /\ f_pc' = "attempt"
                /\ attempt_number' = 1
                /\ resolved_path' = resolve(f_output_path)
                /\ UNCHANGED <<f_outcome, f_message>>
           ELSE /\ f_pc' = "done"
                /\ f_outcome' = r
                /\ f_message' = ""
                /\ UNCHANGED <<attempt_number, resolved_path>>
    /\ UNCHANGED <<notFetch, fetchArgs, requests, ends, last, content, files>>

\* the HTTP requests one session.get sends: the URL, then each redirect target
\* when redirects are followed
RequestsOf(r, hops) ==
    IF follows_redirects(r) THEN <<"url">> \o [i \in 1..hops |-> "redirect"] ELSE <<"url">>

LastOf(r, resp) ==
    [kind |-> attempt_result(r, resp),
     status |-> IF IsResponse(resp) THEN resp.status ELSE 0,
     ctype |-> resp.ctype,
     message |-> attempt_message(r, resp)]

\* one attempt of download_with_retry, and tenacity's decision; download_icon
\* turns a Timeout/ConnectionError that gets out into a DownloadError
Attempt ==
    /\ f_pc = "attempt"
    /\ \E resp \in Replies, hops \in 0..MaxRedirects :
          /\ follows_redirects(rev) => (IsResponse(resp) => resp.status # 302)
          /\ ~follows_redirects(rev) => hops = 0
          /\ requests' = requests \o RequestsOf(rev, hops)
          /\ last' = LastOf(rev, resp)
          /\ ends' = Append(ends, attempt_result(rev, resp))
          /\ LET res == attempt_result(rev, resp)
             IN  IF res = "content"
                 THEN /\ content' = resp.body
                      /\ f_pc' = "check"
                      /\ UNCHANGED <<attempt_number, f_outcome, f_message>>
                 ELSE IF retry_if_exception_type(rev, res) /\ ~stop_after_attempt(attempt_number)
                 THEN /\ attempt_number' = attempt_number + 1
                      /\ UNCHANGED <<f_pc, content, f_outcome, f_message>>
                 ELSE /\ f_pc' = "done"
                      /\ f_outcome' = "DownloadError"
                      /\ f_message' = terminal_message(rev, LastOf(rev, resp))
                      /\ UNCHANGED <<attempt_number, content>>
    /\ UNCHANGED <<notFetch, fetchArgs, resolved_path, files>>

\* download_icon: the size and signature checks
CheckContent ==
    /\ f_pc = "check"
    /\ IF accept_content(rev, content) = "ok"
       THEN f_pc' = "mkdir" /\ UNCHANGED <<f_outcome, f_message>>
       ELSE /\ f_pc' = "done"
            /\ f_outcome' = accept_content(rev, content)
            /\ f_message' = content_message(rev, content)
    /\ UNCHANGED <<notFetch, fetchArgs, resolved_path, progress, files>>

\* what a call on the temp file does to the two paths
SetTemp(v) ==
    /\ temp_path' = v
    /\ final_path' = IF SameFile(f_output_path) THEN v ELSE final_path

\* resolved_path.parent.mkdir(parents=True, exist_ok=True): outside the try, an
\* OSError leaves download_icon as it is
Mkdir ==
    /\ f_pc = "mkdir"
    /\ fs_ops' = Append(fs_ops, "mkdir")
    /\ \E o \in {"ok", "OSError"} :
          IF o = "ok"
          THEN f_pc' = "open" /\ UNCHANGED <<f_outcome, f_message>>
          ELSE f_pc' = "done" /\ f_outcome' = "OSError" /\ f_message' = ""
    /\ UNCHANGED <<notFetch, fetchArgs, resolved_path, progress,
                   final_path, temp_path>>

\* open(temp_path, 'wb'): creates or truncates the temp file
OpenTemp ==
    /\ f_pc = "open"
    /\ fs_ops' = Append(fs_ops, "open")
    /\ \E o \in {"ok", "OSError"} :
          IF o = "ok"
          THEN f_pc' = "write" /\ SetTemp("partial")
          ELSE f_pc' = "cleanup" /\ UNCHANGED <<final_path, temp_path>>
    /\ UNCHANGED <<notFetch, fetchArgs, resolved_path, progress,
                   f_outcome, f_message>>

\* f.write(content) and the close of the with block
WriteFile ==
    /\ f_pc = "write"
    /\ fs_ops' = Append(fs_ops, "write")
    /\ \E o \in {"ok", "OSError"} :
          IF o = "ok"
          THEN f_pc' = "replace" /\ SetTemp("complete")
          ELSE f_pc' = "cleanup" /\ UNCHANGED <<final_path, temp_path>>
    /\ UNCHANGED <<notFetch, fetchArgs, resolved_path, progress,
                   f_outcome, f_message>>

\* temp_path.replace(resolved_path)
Replace ==
    /\ f_pc = "replace"
    /\ fs_ops' = Append(fs_ops, "replace")
    /\ \E o \in {"ok", "OSError"} :
          IF o = "ok"
          THEN /\ f_pc' = "done"
               /\ f_outcome' = "saved"
               /\ final_path' = temp_path
               /\ temp_path' = IF SameFile(f_output_path) THEN temp_path ELSE "absent"
               /\ UNCHANGED f_message
          ELSE /\ f_pc' = "cleanup"
               /\ UNCHANGED <<final_path, temp_path, f_outcome, f_message>>
    /\ UNCHANGED <<notFetch, fetchArgs, resolved_path, progress>>

\* except OSError: unlink the temp file if it exists, raise DownloadError
Cleanup ==
    /\ f_pc = "cleanup"
    /\ IF temp_path # "absent"
       THEN fs_ops' = Append(fs_ops, "unlink") /\ SetTemp("absent")
       ELSE UNCHANGED <<final_path, temp_path, fs_ops>>
    /\ f_pc' = "done"
    /\ f_outcome' = "DownloadError"
    /\ f_message' = MsgWrite
    /\ UNCHANGED <<notFetch, fetchArgs, resolved_path, progress>>

NextFetch ==
    \/ FetchValidate
    \/ Attempt
    \/ CheckContent
    \/ Mkdir
    \/ OpenTemp
    \/ WriteFile
    \/ Replace
    \/ Cleanup

(***************************************************************************)
(* The extraction functions on their own: one call on one input.           *)
(***************************************************************************)
DomPageInputs ==
    [primary : SeqsUpTo(DomImages, MaxElems), fallback : SeqsUpTo(DomImages, MaxElems)]

InitExtract ==
    /\ ScraperIdle
    /\ FetchIdle
    /\ StreamIdle
    /\ BatchIdle
    /\ PackIdle
    /\ NameIdle
    /\ ReportIdle
    /\ LaunchIdle
    /\ StepsIdle
    /\ x_pc = "call"
    /\ x_out = << >>
    /\ \/ x_fn = "robust" /\ rev = "src" /\ x_in \in SeqsUpTo(RawImages, MaxElems)
       \/ x_fn = "dom" /\ rev = "root" /\ x_in \in DomPageInputs
       \/ x_fn = "regex" /\ rev \in Revisions /\ x_in \in SeqsUpTo(Ids, MaxMatches)

ApplyRobust ==
    /\ x_pc = "call" /\ x_fn = "robust"
    /\ x_out' = extract_icons_robust(x_in)
    /\ x_pc' = "returned"
    /\ UNCHANGED <<notExtract, x_fn, x_in>>

ApplyFromDom ==
    /\ x_pc = "call" /\ x_fn = "dom"
    /\ x_out' = extract_icons_from_dom(x_in)
    /\ x_pc' = "returned"
    /\ UNCHANGED <<notExtract, x_fn, x_in>>

ApplyRegex ==
    /\ x_pc = "call" /\ x_fn = "regex"
    /\ x_out' = extract_icons_via_regex(rev, x_in)
    /\ x_pc' = "returned"
    /\ UNCHANGED <<notExtract, x_fn, x_in>>

NextExtract ==
    \/ ApplyRobust
    \/ ApplyFromDom
    \/ ApplyRegex

Next ==
    \/ Validate
    \/ StartDriver
    \/ LaunchChrome
    \/ LaunchChromium
    \/ InitScript
    \/ NewPage
    \/ Goto
    \/ CheckLogin
    \/ PerformLogin
    \/ Reload
    \/ VerifyLogin
    \/ Scroll
    \/ ExtractDom
    \/ ExtractRegex
    \/ Session
    \/ FinallyClose
    \/ FinallyStop
    \/ LoopHead
    \/ ItemNewPage
    \/ ItemGoto
    \/ ItemFinally

(***************************************************************************)
(* The streaming read of a response body: _download_with_retry and         *)
(* download_icon accumulate iter_content(chunk_size=8192) into content and *)
(* raise as soon as len(content) exceeds MAX_FILE_SIZE.  Lengths are the   *)
(* real byte counts.  iter_content yields chunks of chunk_size bytes and a *)
(* shorter last one.                                                       *)
(***************************************************************************)
MAX_FILE_SIZE == 50 * 1024 * 1024

CHUNK_SIZE == 8192

BodyLengths ==
    {0, CHUNK_SIZE, MAX_FILE_SIZE - 1, MAX_FILE_SIZE, MAX_FILE_SIZE + 1,
     MAX_FILE_SIZE + CHUNK_SIZE, MAX_FILE_SIZE + CHUNK_SIZE + 1}

exceeds_cap_inclusive(n) == n >= MAX_FILE_SIZE

exceeds_cap(n) == n > MAX_FILE_SIZE

iter_content(remaining) == IF remaining < CHUNK_SIZE THEN remaining ELSE CHUNK_SIZE

InitStream ==
    /\ ScraperIdle
    /\ FetchIdle
    /\ ExtractIdle
    /\ BatchIdle
    /\ PackIdle
    /\ NameIdle
    /\ ReportIdle
    /\ LaunchIdle
    /\ StepsIdle
    /\ rev \in FetchRevisions
    /\ s_pc = "read"
    /\ body_len \in BodyLengths
    /\ buffered = 0

ReadChunk ==
    /\ s_pc = "read"
    /\ buffered < body_len
    /\ buffered' = buffered + iter_content(body_len - buffered)
    /\ s_pc' = IF exceeds_cap(buffered') THEN "raised" ELSE "read"
    /\ UNCHANGED <<notStream, body_len>>

ReturnContent ==
    /\ s_pc = "read"
    /\ buffered = body_len
    /\ s_pc' = "returned"
    /\ UNCHANGED <<notStream, body_len, buffered>>

NextStream ==
    \/ ReadChunk
    \/ ReturnContent

(***************************************************************************)
(* The orchestrator: run_download of src/icons8_collector/cli.py (rev      *)
(* "root": one loop, download_icon then convert_png_to_ico per icon) and   *)
(* async_run_download of src/src/icons8_collector/cli.py (rev "src":       *)
(* download_files_via_browser over all icons, then a conversion loop over  *)
(* the downloaded files), each under main, which turns an exception that   *)
(* gets out into exit code 1; and run_download under main of               *)
(* src/icons8_collector/main.py (rev "main": the loop of rev "root"        *)
(* without the try around the scrape, without the test for an empty list,  *)
(* and with main returning 0 whenever run_download returns).               *)
(* IconConverter is not part of                                            *)
(* src/src/icons8_collector/converter.py; a conversion returns or raises   *)
(* ConversionError.                                                        *)
(***************************************************************************)
MaxBatch == 3

BatchRevisions == Revisions \cup {"main"}

Formats(r) == IF r = "src" THEN {"ico", "icns", "both"} ELSE {"png", "ico", "both"}

\* the errors of Icons8CollectorError that the scrape raises
RunLevelErrors ==
    {"ConfigurationError", "ValidationError", "AuthenticationError", "BrowserError",
     "ScrapingError"}

\* what one icon's turn in the download loop gives
DownloadResults(r) ==
    IF r = "src" THEN {"saved", "not_png", "bad_status", "Error"}
    ELSE {"saved", "DownloadError"}

ConvertResults == {"ok", "ConversionError"}

Entry(step, i, result) == [step |-> step, item |-> i, result |-> result]

\* the function returns code; or exc ends the run with exit code 1: taken by
\* the except of the function, which returns 1, or by main, which returns 1
Return(code) ==
    /\ b_pc' = "done"
    /\ b_exit' = code
    /\ b_raised' = "none"

RaiseOutIgnored(exc) ==
    /\ b_pc' = "done"
    /\ b_exit' = 0
    /\ b_raised' = exc

RaiseOut(exc) ==
    /\ b_pc' = "done"
    /\ b_exit' = 1
    /\ b_raised' = exc

InitBatch ==
    /\ ScraperIdle
    /\ FetchIdle
    /\ ExtractIdle
    /\ StreamIdle
    /\ PackIdle
    /\ NameIdle
    /\ ReportIdle
    /\ LaunchIdle
    /\ StepsIdle
    /\ rev \in BatchRevisions
    /\ b_pc = "scrape"
    /\ b_format \in Formats(rev)
    /\ b_icons = 0
    /\ b_i = 0
    /\ b_log = << >>
    /\ b_downloaded = << >>
    /\ b_converted = 0
    /\ b_errors = << >>
    /\ b_summary = FALSE
    /\ b_raised = "none"
    /\ b_exit = -1

\* icons = get_collection_icons(...) / await scrape_collection(...) in its try,
\* and `if not icons: return 1`; main.py has neither the try (main takes the
\* error and returns 1) nor the test
BatchScrape ==
    /\ b_pc = "scrape"
    /\ \/ \E e \in RunLevelErrors :
             /\ RaiseOut(e)
             /\ UNCHANGED b_icons
       \/ \E n \in 0..MaxBatch :
             /\ b_icons' = n
             /\ IF n = 0 /\ rev # "main" THEN Return(1)
                ELSE b_pc' = "start" /\ UNCHANGED <<b_exit, b_raised>>
    /\ UNCHANGED <<notBatch, b_format, b_i, b_log, b_downloaded, b_converted, b_errors,
                   b_summary>>

\* the output directories are made; rev root opens Icons8Client, rev src calls
\* launch_browser at the head of download_files_via_browser, outside any try
BatchStart ==
    /\ b_pc = "start"
    /\ \E o \in (IF rev = "src" THEN {"ok", "BrowserError"} ELSE {"ok"}) :
          IF o = "ok"
          THEN /\ IF b_icons = 0
                  THEN b_pc' = "summary" /\ UNCHANGED b_i
                  ELSE b_pc' = "download" /\ b_i' = 1
               /\ UNCHANGED <<b_exit, b_raised>>
          ELSE RaiseOut(o) /\ UNCHANGED b_i
    /\ UNCHANGED <<notBatch, b_format, b_icons, b_log, b_downloaded, b_converted, b_errors,
                   b_summary>>

\* rev root, main: download_icon(icon.url, png_file, base_dir=download_dir) in
\* the try of the loop; except DownloadError records the error
DownloadItem ==
    /\ b_pc = "download"
    /\ rev # "src"
    /\ \E o \in DownloadResults(rev) :
          /\ b_log' = Append(b_log, Entry("download", b_i, o))
          /\ IF o = "saved"
             THEN /\ b_downloaded' = Append(b_downloaded, b_i)
                  /\ UNCHANGED b_errors
                  /\ IF b_format \in {"ico", "both"}
                     THEN b_pc' = "convert" /\ UNCHANGED b_i
                     ELSE IF b_i = b_icons
                          THEN b_pc' = "summary" /\ UNCHANGED b_i
                          ELSE b_i' = b_i + 1 /\ UNCHANGED b_pc
             ELSE /\ b_errors' = Append(b_errors, b_i)
                  /\ UNCHANGED b_downloaded
                  /\ IF b_i = b_icons
                     THEN b_pc' = "summary" /\ UNCHANGED b_i
                     ELSE b_i' = b_i + 1 /\ UNCHANGED b_pc
    /\ UNCHANGED <<notBatch, b_format, b_icons, b_converted, b_summary, b_raised, b_exit>>

\* rev root, main: convert_png_to_ico in its own try; except ConversionError
\* records the error; the PNG is removed in ICO-only mode
ConvertItem ==
    /\ b_pc = "convert"
    /\ rev # "src"
    /\ \E o \in ConvertResults :
          /\ b_log' = Append(b_log, Entry("convert", b_i, o))
          /\ b_converted' = IF o = "ok" THEN b_converted + 1 ELSE b_converted
          /\ b_errors' = IF o = "ok" THEN b_errors ELSE Append(b_errors, b_i)
    /\ IF b_i = b_icons
       THEN b_pc' = "summary" /\ UNCHANGED b_i
       ELSE b_pc' = "download" /\ b_i' = b_i + 1
    /\ UNCHANGED <<notBatch, b_format, b_icons, b_downloaded, b_summary, b_raised, b_exit>>

\* rev src: one turn of the loop of download_files_via_browser: `except
\* Exception` takes the item's error, an error of page.close() in the finally
\* block leaves the function; after the last icon `if not downloaded_files:
\* return 1`
BrowserDownloadItem ==
    /\ b_pc = "download"
    /\ rev = "src"
    /\ \E o \in DownloadResults(rev), close \in {"ok", "Error"} :
          /\ b_log' = Append(b_log, Entry("download", b_i, o))
          /\ b_downloaded' = IF o = "saved" THEN Append(b_downloaded, b_i) ELSE b_downloaded
          /\ IF close = "Error"
             THEN RaiseOut("Error") /\ UNCHANGED b_i
             ELSE IF b_i < b_icons
             THEN b_i' = b_i + 1 /\ UNCHANGED <<b_pc, b_exit, b_raised>>
             ELSE IF b_downloaded' = << >>
             THEN Return(1) /\ UNCHANGED b_i
             ELSE b_pc' = "convert" /\ b_i' = 1 /\ UNCHANGED <<b_exit, b_raised>>
    /\ UNCHANGED <<notBatch, b_format, b_icons, b_converted, b_errors, b_summary>>

\* rev src: one turn of the conversion loop over downloaded_files
ConvertFile ==
    /\ b_pc = "convert"
    /\ rev = "src"
    /\ \E o \in ConvertResults :
          /\ b_log' = Append(b_log, Entry("convert", b_downloaded[b_i], o))
          /\ b_converted' = IF o = "ok" THEN b_converted + 1 ELSE b_converted
    /\ IF b_i = Len(b_downloaded)
       THEN b_pc' = "summary" /\ UNCHANGED b_i
       ELSE b_i' = b_i + 1 /\ UNCHANGED b_pc
    /\ UNCHANGED <<notBatch, b_format, b_icons, b_downloaded, b_errors, b_summary,
                   b_raised, b_exit>>

\* the temporary directory is removed and the summary printed; rev root returns
\* 0 if downloaded > 0 else 1, rev src returns 0, in main.py run_download
\* returns None and main returns 0
BatchSummary ==
    /\ b_pc = "summary"
    /\ b_summary' = TRUE
    /\ Return(IF rev = "root" /\ b_downloaded = << >> THEN 1 ELSE 0)
    /\ UNCHANGED <<notBatch, b_format, b_icons, b_i, b_log, b_downloaded, b_converted,
                   b_errors>>

NextBatch ==
    \/ BatchScrape
    \/ BatchStart
    \/ DownloadItem
    \/ ConvertItem
    \/ BrowserDownloadItem
    \/ ConvertFile
    \/ BatchSummary

(***************************************************************************)
(* The icon container writers.  SVGConverter.create_ico packs the images   *)
(* of a {size: image} mapping with _write_custom_ico: a 6-byte header, one *)
(* 16-byte directory entry per image, then the PNG encodings; the file is  *)
(* modelled byte by byte.  SVGConverter.create_icns hands the images to    *)
(* Pillow's save.  convert_png_to_ico of src/icons8_collector/converter.py *)
(* lets Pillow write the layers to a temp file and renames it.             *)
(***************************************************************************)
MaxImages == 3

WIN_SIZES == {16, 32, 48, 64, 128, 256}

MAC_SIZES == {16, 32, 64, 128, 256, 512, 1024}

\* the lengths of the PNG encodings (bio.getvalue())
BlobLengths == {70, 300}

PackFunctions == {"create_ico", "create_icns", "convert_png_to_ico"}

ImageMaps(sizes) ==
    UNION {[S -> BlobLengths] : S \in {T \in SUBSET sizes : Cardinality(T) <= MaxImages}}

NoImages == [s \in {} |-> 0]

\* int.to_bytes(length, 'little') for 0 <= n < 256 ^ length (every value the
\* writer passes is in that range), int.from_bytes(b, 'little')
to_bytes(n, length) == [i \in 1..length |-> (n \div (256 ^ (i - 1))) % 256]

RECURSIVE from_bytes(_)
from_bytes(b) == IF b = << >> THEN 0 ELSE b[1] + 256 * from_bytes(Tail(b))

RECURSIVE sorted_reverse(_)
\* sorted(images.keys(), reverse=True)
sorted_reverse(S) ==
    IF S = {} THEN << >>
    ELSE LET m == CHOOSE x \in S : \A y \in S : y <= x
         IN  <<m>> \o sorted_reverse(S \ {m})

\* 'width': size if size < 256 else 0
encoded_size(sz) == IF sz < 256 THEN sz ELSE 0

\* png_blobs: one entry per size, largest first; the bytes of an encoding
\* start with the PNG signature byte and are otherwise not interpreted
png_blobs(images) ==
    LET sorted_sizes == sorted_reverse(DOMAIN images)
    IN  [i \in 1..Len(sorted_sizes) |->
            [size |-> sorted_sizes[i],
             data |-> [j \in 1..images[sorted_sizes[i]] |-> 137],
             width |-> encoded_size(sorted_sizes[i]),
             height |-> encoded_size(sorted_sizes[i])]]

\* Reserved, Type 1 (ICO), Count
ico_header(blobs) == <<0, 0, 1, 0>> \o to_bytes(Len(blobs), 2)

\* offset = 6 + (16 * len(png_blobs))
first_offset_after_header(blobs) == 6

first_offset(blobs) == 6 + 16 * Len(blobs)

RECURSIVE ico_directory(_, _, _)
\* the directory: offset starts at 6 + 16 * len(png_blobs) and grows by the
\* length of each encoding
ico_directory(blobs, i, offset) ==
    IF i > Len(blobs) THEN << >>
    ELSE to_bytes(blobs[i].width, 1) \o to_bytes(blobs[i].height, 1)
         \o <<0, 0, 1, 0, 32, 0>>
         \o to_bytes(Len(blobs[i].data), 4) \o to_bytes(offset, 4)
         \o ico_directory(blobs, i + 1, offset + Len(blobs[i].data))

RECURSIVE ico_data(_, _)
ico_data(blobs, i) ==
    IF i > Len(blobs) THEN << >> ELSE blobs[i].data \o ico_data(blobs, i + 1)

\* convert_png_to_ico: the sizes asked of img.save
ico_sizes == {256, 128, 64, 48, 32, 24, 16}

Square(n) == [width |-> n, height |-> n]

valid_sizes_unfiltered(src, generate_layers) ==
    IF generate_layers THEN {Square(n) : n \in ico_sizes} ELSE {src}

valid_sizes(src, generate_layers) ==
    IF generate_layers
    THEN LET fit == {Square(n) : n \in {m \in ico_sizes : m <= src.width /\ m <= src.height}}
         IN  IF fit = {} THEN {src} ELSE fit
    ELSE {src}

\* the sources of convert_png_to_ico: validate_image_dimensions has accepted them
SourceDims == {1, 16, 20, 24, 48, 100, 256, 300}

Sources == [width : SourceDims, height : SourceDims]

InitPack ==
    /\ ScraperIdle
    /\ FetchIdle
    /\ ExtractIdle
    /\ StreamIdle
    /\ BatchIdle
    /\ NameIdle
    /\ ReportIdle
    /\ LaunchIdle
    /\ StepsIdle
    /\ k_fn \in PackFunctions
    /\ rev = IF k_fn = "convert_png_to_ico" THEN "root" ELSE "src"
    /\ k_pc = "call"
    /\ k_images \in (IF k_fn = "create_ico" THEN ImageMaps(WIN_SIZES)
                     ELSE IF k_fn = "create_icns" THEN ImageMaps(MAC_SIZES)
                     ELSE {NoImages})
    /\ k_src \in (IF k_fn = "convert_png_to_ico" THEN Sources ELSE {NoSource})
    /\ k_layers \in (IF k_fn = "convert_png_to_ico" THEN BOOLEAN ELSE {FALSE})
    /\ k_sizes = {}
    /\ k_before \in {"absent", "old"}
    /\ k_file = k_before
    /\ k_bytes = << >>
    /\ k_temp = "absent"
    /\ k_outcome = "running"

packArgs == <<k_fn, k_images, k_src, k_layers, k_before>>

Finished(kind) ==
    /\ k_pc' = "done"
    /\ k_outcome' = kind

\* `not images`
not_images_never(images) == FALSE

not_images(images) == DOMAIN images = {}

\* create_ico, create_icns: `if not images: raise ConversionError`
PackCall ==
    /\ k_pc = "call"
    /\ k_fn \in {"create_ico", "create_icns"}
    /\ IF not_images(k_images)
       THEN Finished("ConversionError")
       ELSE /\ k_pc' = IF k_fn = "create_ico" THEN "encode" ELSE "save"
            /\ UNCHANGED k_outcome
    /\ UNCHANGED <<notPack, packArgs, k_sizes, k_file, k_bytes, k_temp>>

\* _write_custom_ico: img.save(bio, format="PNG") for every size, before the
\* output file is opened
EncodeBlobs ==
    /\ k_pc = "encode"
    /\ \E o \in {"ok", "Error"} :
          IF o = "ok" THEN k_pc' = "open" /\ UNCHANGED k_outcome ELSE Finished(o)
    /\ UNCHANGED <<notPack, packArgs, k_sizes, k_file, k_bytes, k_temp>>

\* _write_custom_ico: open(output_path, 'wb') creates or truncates the output
OpenOutput ==
    /\ k_pc = "open"
    /\ \E o \in {"ok", "OSError"} :
          IF o = "ok"
          THEN /\ k_pc' = "header"
               /\ k_file' = "partial"
               /\ k_bytes' = << >>
               /\ UNCHANGED k_outcome
          ELSE Finished(o) /\ UNCHANGED <<k_file, k_bytes>>
    /\ UNCHANGED <<notPack, packArgs, k_sizes, k_temp>>

\* _write_custom_ico: the three writes of the header
WriteHeader ==
    /\ k_pc = "header"
    /\ \E o \in {"ok", "OSError"} :
          IF o = "ok"
          THEN /\ k_pc' = "directory"
               /\ k_bytes' = k_bytes \o ico_header(png_blobs(k_images))
               /\ UNCHANGED k_outcome
          ELSE Finished(o) /\ UNCHANGED k_bytes
    /\ UNCHANGED <<notPack, packArgs, k_sizes, k_file, k_temp>>

\* _write_custom_ico: the loop that writes the directory
WriteDirectory ==
    /\ k_pc = "directory"
    /\ \E o \in {"ok", "OSError"} :
          IF o = "ok"
          THEN /\ k_pc' = "data"
               /\ k_bytes' = k_bytes \o ico_directory(png_blobs(k_images), 1,
                                                      first_offset(png_blobs(k_images)))
               /\ UNCHANGED k_outcome
          ELSE Finished(o) /\ UNCHANGED k_bytes
    /\ UNCHANGED <<notPack, packArgs, k_sizes, k_file, k_temp>>

\* _write_custom_ico: the loop that writes the encodings, and the close
WriteData ==
    /\ k_pc = "data"
    /\ \E o \in {"ok", "OSError"} :
          IF o = "ok"
          THEN /\ k_bytes' = k_bytes \o ico_data(png_blobs(k_images), 1)
               /\ k_file' = "complete"
               /\ Finished("returned")
          ELSE Finished(o) /\ UNCHANGED <<k_bytes, k_file>>
    /\ UNCHANGED <<notPack, packArgs, k_sizes, k_temp>>

\* create_icns: base_img.save(output_path, format='ICNS', append_images=...);
\* `except Exception` raises ConversionError.  What a failed save leaves at
\* the path is Pillow's: the file as it was, a partial file, or no file
SaveIcns ==
    /\ k_pc = "save"
    /\ k_fn = "create_icns"
    /\ \E o \in {"ok", "Error"} :
          IF o = "ok"
          THEN k_file' = "complete" /\ Finished("returned")
          ELSE k_file' \in {k_file, "partial", "absent"} /\ Finished("ConversionError")
    /\ UNCHANGED <<notPack, packArgs, k_sizes, k_bytes, k_temp>>

\* convert_png_to_ico: validate_image_file, Image.open, validate_image_dimensions,
\* convert('RGBA'), mkdir, and the choice of valid_sizes
ConvertOpen ==
    /\ k_pc = "call"
    /\ k_fn = "convert_png_to_ico"
    /\ \E o \in {"ok", "ValidationError", "ConversionError"} :
          IF o = "ok"
          THEN /\ k_pc' = "save"
               /\ k_sizes' = valid_sizes(k_src, k_layers)
               /\ UNCHANGED k_outcome
          ELSE Finished(o) /\ UNCHANGED k_sizes
    /\ UNCHANGED <<notPack, packArgs, k_file, k_bytes, k_temp>>

\* convert_png_to_ico: img.save(temp_path, format='ICO', sizes=valid_sizes) and
\* the verification of the temp file (every caller leaves verify_output at its
\* default, True)
ConvertSave ==
    /\ k_pc = "save"
    /\ k_fn = "convert_png_to_ico"
    /\ \E o \in {"ok", "empty", "Error", "KeyboardInterrupt"} :
          CASE o = "ok" ->
                /\ k_temp' = "complete"
                /\ k_pc' = "replace"
                /\ UNCHANGED k_outcome
            [] o = "empty" ->
                /\ k_temp' \in {"absent", "empty"}
                /\ k_pc' = "cleanup"
                /\ k_outcome' = "ConversionError"
            [] OTHER ->
                /\ k_temp' \in {"absent", "partial"}
                /\ k_pc' = "cleanup"
                /\ k_outcome' = IF o = "Error" THEN "ConversionError" ELSE o
    /\ UNCHANGED <<notPack, packArgs, k_sizes, k_file, k_bytes>>

\* convert_png_to_ico: temp_path.replace(ico_path); success = True
ConvertReplace ==
    /\ k_pc = "replace"
    /\ \E o \in {"ok", "OSError"} :
          IF o = "ok"
          THEN /\ k_file' = k_temp
               /\ k_temp' = "absent"
               /\ Finished("returned")
          ELSE /\ k_pc' = "cleanup"
               /\ k_outcome' = "ConversionError"
               /\ UNCHANGED <<k_file, k_temp>>
    /\ UNCHANGED <<notPack, packArgs, k_sizes, k_bytes>>

\* convert_png_to_ico: finally: if not success and temp_path.exists():
\* temp_path.unlink(), an OSError of unlink is passed over
ConvertCleanup ==
    /\ k_pc = "cleanup"
    /\ \E o \in {"ok", "OSError"} :
          k_temp' = IF k_temp # "absent" /\ o = "ok" THEN "absent" ELSE k_temp
    /\ k_pc' = "done"
    /\ UNCHANGED <<notPack, packArgs, k_sizes, k_file, k_bytes, k_outcome>>

NextPack ==
    \/ PackCall
    \/ EncodeBlobs
    \/ OpenOutput
    \/ WriteHeader
    \/ WriteDirectory
    \/ WriteData
    \/ SaveIcns
    \/ ConvertOpen
    \/ ConvertSave
    \/ ConvertReplace
    \/ ConvertCleanup

(***************************************************************************)
(* sanitize_filename (src/icons8_collector/client.py and downloader.py,    *)
(* the same text in both).  A name is a sequence of characters; "NUL"      *)
(* stands for the null byte and "@" for any character that is neither      *)
(* alphanumeric nor one of those the function names.                       *)
(***************************************************************************)
MaxNameLen == 3
max_length == 200

Alnum == {"a", "7", "i", "c", "o", "n", "1"}
NameChars == {"a", "7", " ", "-", "_", "/", "\\", "NUL", ".", "@"}

Strings(n) == UNION {[1..k -> NameChars] : k \in 0..n}

Pad(n) == [i \in 1..n |-> "a"]

\* names around the length limit: a run of letters and one more character
LongNames ==
    {Pad(n) \o t : n \in {max_length - 1, max_length, max_length + 1}, t \in Strings(1)}

Names ==
    {[kind |-> "str", chars |-> c] : c \in Strings(MaxNameLen) \cup LongNames}
        \cup {NoName, [kind |-> "int", chars |-> << >>]}

\* the fallbacks the callers pass: 'icon' and f'icon_{i}'
Fallbacks == {<<"i", "c", "o", "n">>, <<"i", "c", "o", "n", "_", "1">>}

isalnum(c) == c \in Alnum

RECURSIVE replace(_, _, _)
replace(s, old, new) ==
    \* str.replace: the leftmost occurrence first, then the rest of the string
    LET found == {i \in 1..(Len(s) - Len(old) + 1) : SubSeq(s, i, i + Len(old) - 1) = old}
    IN IF found = {} THEN s
       ELSE LET i == CHOOSE j \in found : \A k \in found : j <= k
            IN SubSeq(s, 1, i - 1) \o new
                   \o replace(SubSeq(s, i + Len(old), Len(s)), old, new)

RECURSIVE rstrip(_)
rstrip(s) ==
    IF s = << >> THEN s
    ELSE IF s[Len(s)] = " " THEN rstrip(SubSeq(s, 1, Len(s) - 1)) ELSE s

RECURSIVE strip(_, _)
strip(s, c) ==
    IF s = << >> THEN s
    ELSE IF s[1] = c THEN strip(Tail(s), c)
    ELSE IF s[Len(s)] = c THEN strip(SubSeq(s, 1, Len(s) - 1), c)
    ELSE s

keep(c) == isalnum(c) \/ c \in {" ", "-", "_"}

limit_length_unbounded(s) == s

limit_length(s) == IF Len(s) > max_length THEN SubSeq(s, 1, max_length) ELSE s

sanitize_filename(name, fallback) ==
    IF name.kind # "str" \/ name.chars = << >> THEN fallback
    ELSE LET separators == replace(replace(replace(name.chars, <<"/">>, <<"_">>),
                                           <<"\\">>, <<"_">>), <<"NUL">>, << >>)
             traversal == replace(separators, <<".", ".">>, <<"_">>)
             kept == rstrip(SelectSeq(traversal, keep))
             safe_name == limit_length(replace(kept, <<" ">>, <<"_">>))
         IN IF safe_name = << >> \/ strip(safe_name, ".") = << >>
            THEN fallback
            ELSE safe_name

InitName ==
    /\ ScraperIdle
    /\ FetchIdle
    /\ ExtractIdle
    /\ StreamIdle
    /\ BatchIdle
    /\ PackIdle
    /\ ReportIdle
    /\ LaunchIdle
    /\ StepsIdle
    /\ rev \in {"root", "downloader"}
    /\ n_pc = "call"
    /\ n_name \in Names
    /\ n_fallback \in Fallbacks
    /\ n_out = << >>
    /\ n_again = << >>

SanitizeCall ==
    /\ n_pc = "call"
    /\ n_out' = sanitize_filename(n_name, n_fallback)
    /\ n_pc' = "again"
    /\ UNCHANGED <<notName, n_name, n_fallback, n_again>>

SanitizeAgain ==
    /\ n_pc = "again"
    /\ n_again' = sanitize_filename([kind |-> "str", chars |-> n_out], n_fallback)
    /\ n_pc' = "done"
    /\ UNCHANGED <<notName, n_name, n_fallback, n_out>>

NextName ==
    \/ SanitizeCall
    \/ SanitizeAgain

(***************************************************************************)
(* Error messages on their way out (Icons8CollectorError._sanitize_message *)
(* of src/icons8_collector/exceptions.py and the handlers that print or    *)
(* log an error).  A message is a sequence of characters: "a" is a word    *)
(* character, "K" one of the words password, token, secret, key, auth      *)
(* (word characters too), and the redaction markers are written as the     *)
(* pieces the second pattern sees: '[EMAIL', a space, 'REDACTED]'.         *)
(***************************************************************************)
MaxParts == 3

WordClass == {"a", "K"}
EmailClass == WordClass \cup {".", "-"}
SeparatorClass == {"=", ":", " "}
Markers == {"[EMAIL", "REDACTED]", "[REDACTED]"}
NonSpace == WordClass \cup {".", "-", "@", "=", ":"} \cup Markers

EMAIL_REDACTED == <<"[EMAIL", " ", "REDACTED]">>

\* the pieces messages are made of: single characters, an address, and a
\* credential with '=' and with ': '
Fragments ==
    {<<"a">>, <<" ">>, <<".">>, <<"@">>, <<"=">>, <<"K">>,
     <<"a", "@", "a", ".", "a">>, <<"K", "=", "a">>, <<"K", ":", " ", "a">>}

RECURSIVE Concats(_)
Concats(n) ==
    IF n = 0 THEN {<< >>}
    ELSE LET shorter == Concats(n - 1)
         IN shorter \cup {m \o f : m \in shorter, f \in Fragments}

Messages == Concats(MaxParts)

SetMax(S) == CHOOSE x \in S : \A y \in S : y <= x

\* the last index of the longest run of characters of a class that starts
\* at i (i - 1 when there is none): a greedy 'class+'
RECURSIVE run_end(_, _, _)
run_end(s, i, class) ==
    IF i <= Len(s) /\ s[i] \in class THEN run_end(s, i + 1, class) ELSE i - 1

\* r'[\w\.-]+@[\w\.-]+\.\w+' matched at i: the index of its last character,
\* or 0.  The domain part gives back characters until a dot and a word
\* character follow it.
email_end(s, i) ==
    LET local_end == run_end(s, i, EmailClass)
    IN IF local_end < i \/ local_end + 1 > Len(s) \/ s[local_end + 1] # "@" THEN 0
       ELSE LET domain == local_end + 2
                domain_end == run_end(s, domain, EmailClass)
                splits == {d \in domain..(domain_end - 2) :
                               s[d + 1] = "." /\ s[d + 2] \in WordClass}
            IN IF splits = {} THEN 0
               ELSE run_end(s, SetMax(splits) + 2, WordClass)

RECURSIVE sub_email(_, _)
sub_email(s, i) ==
    IF i > Len(s) THEN << >>
    ELSE LET e == email_end(s, i)
         IN IF e > 0 THEN EMAIL_REDACTED \o sub_email(s, e + 1)
            ELSE <<s[i]>> \o sub_email(s, i + 1)

\* r'(password|token|secret|key|auth)[=:\s]+[^\s]+' matched at i: where the
\* value starts and ends, or zeros.  The separators give back characters
\* until a character that is not a space follows them.
NoMatch == [from |-> 0, to |-> 0]

credential_match(s, i) ==
    IF s[i] # "K" THEN NoMatch
    ELSE LET separators_end == run_end(s, i + 1, SeparatorClass)
             splits == {q \in (i + 1)..separators_end :
                            q + 1 <= Len(s) /\ s[q + 1] # " "}
         IN IF splits = {} THEN NoMatch
            ELSE [from |-> SetMax(splits) + 1,
                  to |-> run_end(s, SetMax(splits) + 1, NonSpace)]

RECURSIVE sub_credential(_, _)
sub_credential(s, i) ==
    IF i > Len(s) THEN << >>
    ELSE LET m == credential_match(s, i)
         IN IF m.to > 0 THEN <<s[i], "=", "[REDACTED]">> \o sub_credential(s, m.to + 1)
            ELSE <<s[i]>> \o sub_credential(s, i + 1)

_sanitize_message(message) == sub_credential(sub_email(message, 1), 1)

ErrorKinds == {"Icons8CollectorError", "Exception"}

\* Icons8CollectorError.__init__ keeps the sanitized message; any other
\* exception keeps its text
message_of(kind, text) ==
    IF kind = "Icons8CollectorError" THEN _sanitize_message(text) ELSE text

\* the handlers that print or log str(e), and the classes each one catches
Handler(r, site, catches) == [rev |-> r, site |-> site, catches |-> catches]

Handlers ==
    {Handler("root", "cli.main:620", {"Icons8CollectorError"}),
     Handler("root", "cli.main:628", {"Exception"}),
     Handler("root", "client._download_with_retry:285", {"Exception"}),
     Handler("main", "main.main:155", {"Icons8CollectorError"}),
     Handler("src", "cli.async_run_download:256", {"Icons8CollectorError"}),
     Handler("src", "cli.main:374", ErrorKinds),
     Handler("src", "scraper.download_files_via_browser:401", ErrorKinds)}

InitReport ==
    /\ ScraperIdle
    /\ FetchIdle
    /\ ExtractIdle
    /\ StreamIdle
    /\ BatchIdle
    /\ PackIdle
    /\ NameIdle
    /\ LaunchIdle
    /\ StepsIdle
    /\ rev \in {"root", "main", "src"}
    /\ e_pc = "raise"
    /\ e_kind = NONE
    /\ e_text \in Messages
    /\ e_message = << >>
    /\ e_site = NONE
    /\ e_shown = << >>

\* raise SomeError(text)
RaiseError ==
    /\ e_pc = "raise"
    /\ \E kind \in ErrorKinds :
           /\ e_kind' = kind
           /\ e_message' = message_of(kind, e_text)
    /\ e_pc' = "caught"
    /\ UNCHANGED <<notReport, e_text, e_site, e_shown>>

\* except ... as e: raise DownloadError(f"Failed to download: {e}")
WrapError ==
    /\ e_pc = "caught"
    /\ e_kind = "Exception"
    /\ e_kind' = "Icons8CollectorError"
    /\ e_message' = message_of("Icons8CollectorError", e_message)
    /\ e_pc' = "wrapped"
    /\ UNCHANGED <<notReport, e_text, e_site, e_shown>>

\* except ... as e: print(f"... {e}") or logger.error(f"... {e}")
ShowError ==
    /\ e_pc \in {"caught", "wrapped"}
    /\ \E h \in Handlers :
           /\ h.rev = rev
           /\ e_kind \in h.catches
           /\ e_site' = h.site
    /\ e_shown' = e_message
    /\ e_pc' = "shown"
    /\ UNCHANGED <<notReport, e_kind, e_text, e_message>>

NextReport ==
    \/ RaiseError
    \/ WrapError
    \/ ShowError

(***************************************************************************)
(* The user-agent cache of launch_browser (src/src/icons8_collector/       *)
(* scraper.py), over a sequence of launches that share BROWSER_DATA_DIR.   *)
(* A file is its text and what follows it (nothing, or a newline left by   *)
(* an editor).                                                             *)
(***************************************************************************)
MaxLaunches == 3

USER_AGENTS ==
    {"Chrome/120.0.0.0 Windows", "Chrome/120.0.0.0 Macintosh", "Edg/119.0.0.0 Windows",
     "Safari/605.1.15 Macintosh"}

File(text, tail) == [text |-> text, tail |-> tail]

EmptyFile == File("", "")

\* what user_agent.txt can hold when a run starts: nothing, or what an
\* earlier run wrote, possibly saved again with a final newline
StartFiles == {AbsentFile} \cup {File(ua, tail) : ua \in USER_AGENTS, tail \in {"", "\n"}}

\* f.read().strip()
read_strip(file) == file.text

exists_never(file) == FALSE

exists(file) == file # AbsentFile

Launch(ua, how, file) == [ua |-> ua, how |-> how, file |-> file]

InitLaunch ==
    /\ ScraperIdle
    /\ FetchIdle
    /\ ExtractIdle
    /\ StreamIdle
    /\ BatchIdle
    /\ PackIdle
    /\ NameIdle
    /\ ReportIdle
    /\ StepsIdle
    /\ rev = "src"
    /\ u_pc = "start"
    /\ u_file \in StartFiles
    /\ u_ua = ""
    /\ u_how = "none"
    /\ u_launches = << >>

\* if os.path.exists(ua_path)
LaunchStart ==
    /\ u_pc = "start"
    /\ Len(u_launches) < MaxLaunches
    /\ u_pc' = IF exists(u_file) THEN "read" ELSE "generate"
    /\ UNCHANGED <<notLaunch, u_file, u_ua, u_how, u_launches>>

\* the file is read, or reading raises and a string is drawn for this launch
ReadUserAgent ==
    /\ u_pc = "read"
    /\ \/ /\ u_ua' = read_strip(u_file)
          /\ u_how' = "read"
       \/ /\ u_ua' \in USER_AGENTS
          /\ u_how' = "read_failed"
    /\ u_pc' = "launched"
    /\ UNCHANGED <<notLaunch, u_file, u_launches>>

\* a string is drawn and written; open() or write() may raise, which is
\* logged and ignored
GenerateUserAgent ==
    /\ u_pc = "generate"
    /\ u_ua' \in USER_AGENTS
    /\ \/ /\ u_file' = File(u_ua', "")
          /\ u_how' = "wrote"
       \/ /\ u_file' \in {u_file, EmptyFile}
          /\ u_how' = "write_failed"
    /\ u_pc' = "launched"
    /\ UNCHANGED <<notLaunch, u_launches>>

\* launch_persistent_context(..., user_agent=user_agent)
LaunchContext ==
    /\ u_pc = "launched"
    /\ u_launches' = Append(u_launches, Launch(u_ua, u_how, u_file))
    /\ u_pc' = "start"
    /\ UNCHANGED <<notLaunch, u_file, u_ua, u_how>>

NextLaunch ==
    \/ LaunchStart
    \/ ReadUserAgent
    \/ GenerateUserAgent
    \/ LaunchContext

(***************************************************************************)
(* The pure steps checked on their own.                                    *)
(***************************************************************************)
ProgramIdle ==
    /\ ScraperIdle
    /\ FetchIdle
    /\ ExtractIdle
    /\ StreamIdle
    /\ BatchIdle
    /\ PackIdle
    /\ NameIdle
    /\ ReportIdle
    /\ LaunchIdle

(***************************************************************************)
(* validate_size of src/icons8_collector/cli.py (main passes it the        *)
(* integer that argparse parsed from --size).                              *)
(***************************************************************************)
SizeMargin == 8

CLI_VALID_SIZES == <<16, 24, 32, 48, 64, 96, 128, 256, 512>>

Members(list) == {list[i] : i \in 1..Len(list)}

abs(n) == IF n < 0 THEN 0 - n ELSE n

\* max(VALID_SIZES)
max_size == SetMax(Members(CLI_VALID_SIZES))

\* min(VALID_SIZES, key=lambda x: abs(x - size)): the first member of the
\* list with the least key
closest(sz) ==
    LET best == CHOOSE i \in 1..Len(CLI_VALID_SIZES) :
                    /\ \A j \in 1..Len(CLI_VALID_SIZES) :
                           abs(CLI_VALID_SIZES[i] - sz) <= abs(CLI_VALID_SIZES[j] - sz)
                    /\ \A j \in 1..(i - 1) :
                           abs(CLI_VALID_SIZES[j] - sz) > abs(CLI_VALID_SIZES[i] - sz)
    IN CLI_VALID_SIZES[best]

\* the size returned, or "ValueError"
SizeResult(kind, sz) == [kind |-> kind, size |-> sz]

cli_validate_size_clamped(sz) ==
    IF sz \in Members(CLI_VALID_SIZES) THEN SizeResult("returned", sz)
    ELSE SizeResult("returned", closest(sz))

cli_validate_size(sz) ==
    IF sz \in Members(CLI_VALID_SIZES) THEN SizeResult("returned", sz)
    ELSE IF sz > max_size THEN SizeResult("ValueError", 0)
    ELSE SizeResult("returned", closest(sz))

SizeArgs == (0 - SizeMargin)..(max_size + SizeMargin)

InitSize ==
    /\ ProgramIdle
    /\ ScrollIdle
    /\ AltIdle
    /\ RunIdle
    /\ FileIdle
    /\ rev = "root"
    /\ z_pc = "call"
    /\ z_size \in SizeArgs
    /\ z_result = 0

ValidateSize ==
    /\ z_pc = "call"
    /\ z_pc' = cli_validate_size(z_size).kind
    /\ z_result' = cli_validate_size(z_size).size
    /\ UNCHANGED <<notSize, z_size>>

NextSize ==
    \/ ValidateSize

(***************************************************************************)
(* human_scroll (src/src/icons8_collector/scraper.py).  The page height is *)
(* whatever the page reports at each read; the random upward scroll, the   *)
(* sleeps and the mouse moves do not touch the loop's variables.           *)
(***************************************************************************)
MaxScrolls == 6
MaxHeight == 3
MAX_STABLE_CHECKS == 4

\* the max_scrolls argument
max_scrolls == MaxScrolls

Heights == 1..MaxHeight

stable_after_kept(equal, n) == IF equal THEN n + 1 ELSE n

\* stable_count_checks after a check
stable_after(equal, n) == IF equal THEN n + 1 ELSE 0

InitScroll ==
    /\ ProgramIdle
    /\ SizeIdle
    /\ AltIdle
    /\ RunIdle
    /\ FileIdle
    /\ rev = "src"
    /\ h_pc = "scroll"
    /\ h_i = 0
    /\ h_scrolls = 0
    /\ h_last \in Heights
    /\ h_seen = <<h_last>>
    /\ h_stable = 0
    /\ h_why = "running"

\* for i in range(max_scrolls): window.scrollBy(top: scroll_amount); an
\* exception of page.evaluate leaves the function
ScrollStep ==
    /\ h_pc = "scroll"
    /\ h_i < max_scrolls
    /\ \/ /\ h_scrolls' = h_scrolls + 1
          /\ h_pc' = "check"
          /\ UNCHANGED h_why
       \/ /\ h_pc' = "done"
          /\ h_why' = "raised"
          /\ UNCHANGED h_scrolls
    /\ UNCHANGED <<notScroll, h_i, h_last, h_stable, h_seen>>

\* range(max_scrolls) is exhausted: return last_height
LoopExhausted ==
    /\ h_pc = "scroll"
    /\ h_i >= max_scrolls
    /\ h_pc' = "done"
    /\ h_why' = "exhausted"
    /\ UNCHANGED <<notScroll, h_i, h_scrolls, h_last, h_stable, h_seen>>

\* new_height = document.body.scrollHeight and the comparison with last_height
CheckHeight ==
    /\ h_pc = "check"
    /\ \E new_height \in Heights :
          /\ h_seen' = Append(h_seen, new_height)
          /\ h_stable' = stable_after(new_height = h_last, h_stable)
          /\ h_last' = new_height
          /\ IF new_height = h_last /\ h_stable' >= MAX_STABLE_CHECKS
             THEN /\ h_pc' = "done"
                  /\ h_why' = "break"
                  /\ UNCHANGED h_i
             ELSE /\ h_pc' = "scroll"
                  /\ h_i' = h_i + 1
                  /\ UNCHANGED h_why
    /\ UNCHANGED <<notScroll, h_scrolls>>

NextScroll ==
    \/ ScrollStep
    \/ LoopExhausted
    \/ CheckHeight

(***************************************************************************)
(* The display name of an Icon found in the DOM (extract_icons_robust of   *)
(* rev "src", extract_icons_from_dom of rev "root").  An alt text is a     *)
(* sequence of pieces: a space, the word 'icon', and "x" for any other     *)
(* run of letters.                                                         *)
(***************************************************************************)
MaxAltLen == 5

AltPieces == {" ", "icon", "x"}

Alts == UNION {[1..k -> AltPieces] : k \in 0..MaxAltLen}

\* img['alt'] or f'icon_{icon_id}' (rev "root": f'icon_{i}')
raw_name(r, alt) ==
    IF alt # << >> THEN alt ELSE IF r = "src" THEN <<"icon_<id>">> ELSE <<"icon_<i>">>

\* raw_name.replace(' icon', '').strip(); rev "src": if not name: f'icon-{icon_id}'
display_name(r, alt) ==
    LET name == strip(replace(raw_name(r, alt), <<" ", "icon">>, << >>), " ")
    IN IF r = "src" /\ name = << >> THEN <<"icon-<id>">> ELSE name

InitAlt ==
    /\ ProgramIdle
    /\ SizeIdle
    /\ ScrollIdle
    /\ RunIdle
    /\ FileIdle
    /\ rev \in Revisions
    /\ a_pc = "call"
    /\ a_alt \in Alts
    /\ a_name = << >>

DeriveName ==
    /\ a_pc = "call"
    /\ a_name' = display_name(rev, a_alt)
    /\ a_pc' = "done"
    /\ UNCHANGED <<notAlt, a_alt>>

NextAlt ==
    \/ DeriveName

(***************************************************************************)
(* One run of async_run_download (src/src/icons8_collector/cli.py): the    *)
(* scraping session, the browser-download session, the conversion.  Both   *)
(* sessions are persistent contexts on BROWSER_DATA_DIR, launched by       *)
(* launch_browser and closed in the finally block of their function.       *)
(***************************************************************************)
MaxFound == 2

OutputFormats == {"ico", "icns", "both"}

closed_context_skipped(state) == state

\* await context.close() has returned
closed_context(state) == "closed"

InitRun ==
    /\ ProgramIdle
    /\ SizeIdle
    /\ ScrollIdle
    /\ AltIdle
    /\ FileIdle
    /\ rev = "src"
    /\ r_pc = <<"scrape", "launch">>
    /\ r_ctx = [s \in Sessions |-> "none"]
    /\ r_pending = "none"
    /\ r_icons = 0
    /\ r_format \in OutputFormats
    /\ r_exit = "running"

\* context, playwright_instance = await launch_browser(headless), before the
\* try block: a context is returned; BrowserError without a context; or an
\* error of add_init_script after the context was opened; or another error
\* before one was opened
LaunchBrowser(s) ==
    /\ r_pc = <<s, "launch">>
    /\ \E o \in {"ok", "BrowserError", "init_script_failed", "Error"} :
          CASE o = "ok" ->
                /\ r_ctx' = [r_ctx EXCEPT ![s] = "open"]
                /\ r_pc' = <<s, "body">>
                /\ UNCHANGED r_pending
            [] o = "BrowserError" ->
                /\ r_pending' = "Icons8CollectorError"
                /\ r_pc' = <<s, "out">>
                /\ UNCHANGED r_ctx
            [] o = "init_script_failed" ->
                /\ r_ctx' = [r_ctx EXCEPT ![s] = "open"]
                /\ r_pending' = "Error"
                /\ r_pc' = <<s, "out">>
            [] OTHER ->
                /\ r_pending' = "Error"
                /\ r_pc' = <<s, "out">>
                /\ UNCHANGED r_ctx
    /\ UNCHANGED <<notRun, r_icons, r_format, r_exit>>

\* the try block of scrape_collection: it returns a non-empty list of icons
\* or raises (ScrapingError when the list is empty)
ScrapeBody ==
    /\ r_pc = <<"scrape", "body">>
    /\ \/ \E n \in 1..MaxFound : r_icons' = n /\ r_pending' = "returned"
       \/ \E e \in {"Icons8CollectorError", "Error"} : r_pending' = e /\ UNCHANGED r_icons
    /\ r_pc' = <<"scrape", "close">>
    /\ UNCHANGED <<notRun, r_ctx, r_format, r_exit>>

\* the try block of download_files_via_browser: it returns the paths written
\* (an item's own failure is caught inside the loop) or is interrupted
DownloadBody ==
    /\ r_pc = <<"download", "body">>
    /\ \/ \E n \in 0..r_icons : r_icons' = n /\ r_pending' = "returned"
       \/ r_pending' = "Error" /\ UNCHANGED r_icons
    /\ r_pc' = <<"download", "close">>
    /\ UNCHANGED <<notRun, r_ctx, r_format, r_exit>>

\* finally: await context.close(); when it raises, the context may or may
\* not be gone and playwright_instance.stop() is not reached
FinallyCloseContext(s) ==
    /\ r_pc = <<s, "close">>
    /\ \/ /\ r_ctx' = [r_ctx EXCEPT ![s] = closed_context(r_ctx[s])]
          /\ r_pc' = <<s, "stop">>
          /\ UNCHANGED r_pending
       \/ /\ \E left \in {"open", "closed"} : r_ctx' = [r_ctx EXCEPT ![s] = left]
          /\ r_pending' = "Error"
          /\ r_pc' = <<s, "out">>
    /\ UNCHANGED <<notRun, r_icons, r_format, r_exit>>

\* finally: await playwright_instance.stop()
FinallyStopDriver(s) ==
    /\ r_pc = <<s, "stop">>
    /\ \/ UNCHANGED r_pending
       \/ r_pending' = "Error"
    /\ r_pc' = <<s, "out">>
    /\ UNCHANGED <<notRun, r_ctx, r_icons, r_format, r_exit>>

\* async_run_download: try: icons, _, _ = await scrape_collection(...)
\* except Icons8CollectorError: return 1; if not icons: return 1; mkdir
AfterScrape ==
    /\ r_pc = <<"scrape", "out">>
    /\ IF r_pending = "returned" /\ r_icons > 0
       THEN /\ r_pc' = <<"download", "launch">>
            /\ r_pending' = "none"
            /\ UNCHANGED r_exit
       ELSE /\ r_pc' = <<"done", "done">>
            /\ r_exit' = IF r_pending = "Error" THEN "raised" ELSE "1"
            /\ UNCHANGED r_pending
    /\ UNCHANGED <<notRun, r_ctx, r_icons, r_format>>

\* downloaded_paths = await download_files_via_browser(...), outside any
\* try; if not downloaded_files: return 1
AfterDownload ==
    /\ r_pc = <<"download", "out">>
    /\ IF r_pending = "returned" /\ r_icons > 0
       THEN /\ r_pc' = <<"convert", "loop">>
            /\ UNCHANGED r_exit
       ELSE /\ r_pc' = <<"done", "done">>
            /\ r_exit' = IF r_pending = "returned" THEN "1" ELSE "raised"
    /\ UNCHANGED <<notRun, r_ctx, r_pending, r_icons, r_format>>

\* the conversion loop (IconConverter, Pillow: no browser), rmtree, return 0
ConvertAll ==
    /\ r_pc = <<"convert", "loop">>
    /\ r_pc' = <<"done", "done">>
    /\ r_exit' = "0"
    /\ UNCHANGED <<notRun, r_ctx, r_pending, r_icons, r_format>>

NextRun ==
    \/ \E s \in Sessions : LaunchBrowser(s)
    \/ ScrapeBody
    \/ DownloadBody
    \/ \E s \in Sessions : FinallyCloseContext(s)
    \/ \E s \in Sessions : FinallyStopDriver(s)
    \/ AfterScrape
    \/ AfterDownload
    \/ ConvertAll

(***************************************************************************)
(* The files one download loop writes: run_download of                     *)
(* src/icons8_collector/cli.py (rev "root", names through                  *)
(* sanitize_filename) and download_files_via_browser of                    *)
(* src/src/icons8_collector/scraper.py (rev "src", names cleaned in the    *)
(* loop).  The icons of one run have distinct ids: icon i is the i-th of   *)
(* the list.  The directory maps a file name to the icon whose content it  *)
(* holds.                                                                  *)
(***************************************************************************)
MaxFiles == 2

\* display names that stay apart and display names that meet after cleaning
IconNames == {<<"a">>, <<"a", " ">>, <<"a", "/">>, <<"a", "_">>, <<"7">>, << >>}

\* f'icon_{i}'
numbered(i) == <<"i", "c", "o", "n", "_", ToString(i)>>

\* safe_name of download_files_via_browser
browser_safe_name(name, i) ==
    LET safe_name == replace(rstrip(SelectSeq(name, keep)), <<" ">>, <<"_">>)
    IN IF safe_name = << >> THEN numbered(i) ELSE safe_name

\* safe_name of run_download: sanitize_filename(icon.name or f'icon_{i}', f'icon_{i}')
cli_safe_name(name, i) ==
    sanitize_filename([kind |-> "str", chars |-> IF name = << >> THEN numbered(i) ELSE name],
                      numbered(i))

safe_name(r, name, i) ==
    IF r = "src" THEN browser_safe_name(name, i) ELSE cli_safe_name(name, i)

\* open(file_path, 'wb') and write: the file holds this icon's content now
write_file(disk, path, i) == {f \in disk : f.path # path} \cup {[path |-> path, icon |-> i]}

InitFiles ==
    /\ ProgramIdle
    /\ SizeIdle
    /\ ScrollIdle
    /\ AltIdle
    /\ RunIdle
    /\ rev \in Revisions
    /\ w_pc = "loop"
    /\ w_names \in UNION {[1..k -> IconNames] : k \in 0..MaxFiles}
    /\ w_i = 1
    /\ w_disk = {}
    /\ w_succeeded = << >>

\* one iteration: the download fails (nothing written, not counted), or the
\* file is written and the item counted (downloaded += 1,
\* successful_paths.append)
WriteItem ==
    /\ w_pc = "loop"
    /\ w_i <= Len(w_names)
    /\ \/ UNCHANGED <<w_disk, w_succeeded>>
       \/ /\ w_disk' = write_file(w_disk, safe_name(rev, w_names[w_i], w_i), w_i)
          /\ w_succeeded' = Append(w_succeeded, w_i)
    /\ w_i' = w_i + 1
    /\ UNCHANGED <<notFile, w_pc, w_names>>

LoopEnd ==
    /\ w_pc = "loop"
    /\ w_i > Len(w_names)
    /\ w_pc' = "done"
    /\ UNCHANGED <<notFile, w_names, w_i, w_disk, w_succeeded>>

NextFiles ==
    \/ WriteItem
    \/ LoopEnd

vars == <<scraperVars, fetchVars, extractVars, streamVars, batchVars, packVars, toolVars>>

Spec == InitScraper /\ [][Next]_vars

SpecFetch == InitFetch /\ [][NextFetch]_vars

SpecExtract == InitExtract /\ [][NextExtract]_vars

SpecStream == InitStream /\ [][NextStream]_vars

SpecBatch == InitBatch /\ [][NextBatch]_vars

SpecPack == InitPack /\ [][NextPack]_vars

SpecName == InitName /\ [][NextName]_vars

SpecReport == InitReport /\ [][NextReport]_vars

SpecLaunch == InitLaunch /\ [][NextLaunch]_vars

SpecSize == InitSize /\ [][NextSize]_vars

SpecScroll == InitScroll /\ [][NextScroll]_vars

\* the event loop resumes a coroutine whose await has completed
SpecScrollFair == SpecScroll /\ WF_vars(NextScroll)

SpecAlt == InitAlt /\ [][NextAlt]_vars

SpecRun == InitRun /\ [][NextRun]_vars

SpecFiles == InitFiles /\ [][NextFiles]_vars

(***************************************************************************)
(* Properties of the browser session driver (specification Spec)           *)
(***************************************************************************)
Has(ev) == \E i \in 1..Len(trace) : trace[i] = ev

Count(evs) == Cardinality({i \in 1..Len(trace) : trace[i] \in evs})

CheckEvents == {"check_login_status=True", "check_login_status=False"}

IdsOf(found) == [i \in 1..Len(found) |-> found[i].id]

Range(s) == {s[i] : i \in 1..Len(s)}

FirstIdx(s, v) == CHOOSE k \in 1..Len(s) : s[k] = v /\ \A j \in 1..(k - 1) : s[j] # v

\* out lists each value of s once, in the order of its first occurrence in s
IsFirstSeenOrder(out, s) ==
    /\ Range(out) = Range(s)
    /\ Len(out) = Cardinality(Range(s))
    /\ \A i, j \in 1..Len(out) : i < j => FirstIdx(s, out[i]) < FirstIdx(s, out[j])

\* C1: once the browser context has been launched, every exit path of
\* scrape_collection and of download_files_via_browser (return, error in any
\* state, cancellation) has closed the context and stopped the Playwright
\* driver when the call returns or propagates the error.
C1_ContextClosedOnEveryExit ==
    (pc = "done" /\ ctx # "none") => (ctx = "closed" /\ driver = "stopped")

\* C2: with exactly one of email/password non-empty scrape_collection fails
\* in its validation step: the driver is never started, no context is
\* launched and no call reaches the browser; the error is ConfigurationError
\* (for a URL and a size that pass the two validations that run before it,
\* whose ValidationError comes first otherwise).
ExactlyOneCredential == Truthy(email) # Truthy(password)

C2_OneCredentialFailsBeforeLaunch ==
    (op = "scrape" /\ ExactlyOneCredential) =>
        /\ pc \in {"validate", "done"}
        /\ driver = "none" /\ ctx = "none" /\ trace = << >>
        /\ pc = "done" => outcome \in {"ConfigurationError", "ValidationError"}
        /\ (pc = "done" /\ validate_collection_url(url) = "ok" /\ validate_size(size) = "ok")
              => outcome = "ConfigurationError"

C2_Witness ==
    /\ op = "scrape" /\ pc = "done" /\ outcome = "ConfigurationError"
    /\ Truthy(email) /\ ~Truthy(password)
    /\ trace = << >>

\* a name equals the domain d or ends with "." followed by d
HostIs(name, d) ==
    LET h == Lower(name)
    IN  \/ h = d
        \/ \E k \in 1..Len(h) :
              /\ h[k] = "."
              /\ Len(h) - k = Len(d)
              /\ \A i \in 1..Len(d) : h[k + i] = d[i]

\* the host of a URL: its netloc without the port
Hostname(netloc) ==
    LET colons == {k \in 1..Len(netloc) : netloc[k] = ":"}
    IN  IF colons = {} THEN netloc
        ELSE SubSeq(netloc, 1, (CHOOSE k \in colons : \A j \in colons : k <= j) - 1)

PathHas(path, marker) ==
    \E k \in 0..Len(path) :
        /\ k + Len(marker) <= Len(path)
        /\ \A i \in 1..Len(marker) : path[k + i] = marker[i]

UrlIsCollection(u) ==
    /\ u.scheme = "https"
    /\ HostIs(u.netloc, BASE_DOMAIN)
    /\ PathHas(u.path, MarkerCollection) \/ PathHas(u.path, MarkerCollections)

UrlIsCollectionByHost(u) ==
    /\ u.scheme = "https"
    /\ HostIs(Hostname(u.netloc), BASE_DOMAIN)
    /\ PathHas(u.path, MarkerCollection) \/ PathHas(u.path, MarkerCollections)

FirstCheckNegative == Count(CheckEvents) = 1 /\ Has("check_login_status=False")

CredentialsSupplied == Truthy(email) /\ Truthy(password)

C5_NoAnonymousPath ==
    (op = "scrape" /\ FirstCheckNegative /\ ~CredentialsSupplied) =>
        /\ outcome = "AuthenticationError"
        /\ Count({"perform_login", "scroll", "extract_dom", "extract_regex"}) = 0

C5_Witness ==
    /\ op = "scrape" /\ pc = "done" /\ FirstCheckNegative /\ ~CredentialsSupplied
    /\ outcome = "AuthenticationError"

\* C6: perform_login is called at most once, only right after a negative
\* first check and with both credentials; what follows it is the navigation
\* to the collection URL and the second check, and a negative second check
\* ends the run in AuthenticationError with no further login.
C6_OneLoginAttempt ==
    op = "scrape" =>
        /\ Count({"perform_login"}) <= 1
        /\ \A i \in 1..Len(trace) : trace[i] = "perform_login" =>
              /\ CredentialsSupplied
              /\ i > 1 /\ trace[i - 1] = "check_login_status=False"
              /\ \A j \in 1..(i - 2) : trace[j] \notin CheckEvents
              /\ i + 1 <= Len(trace) => trace[i + 1] \in {"goto", "close"}
              /\ (i + 2 <= Len(trace) /\ trace[i + 1] = "goto") =>
                    trace[i + 2] \in CheckEvents \cup {"close"}
              /\ (i + 2 <= Len(trace) /\ trace[i + 2] = "check_login_status=False") =>
                    /\ outcome = "AuthenticationError"
                    /\ i + 3 <= Len(trace) => trace[i + 3] = "close"
        /\ (pc \in {"reload", "verify_login"}) => Has("perform_login")

C6_Witness ==
    /\ op = "scrape" /\ pc = "done" /\ outcome = "AuthenticationError"
    /\ \E i \in 1..Len(trace) :
          /\ trace[i] = "perform_login"
          /\ i + 2 <= Len(trace)
          /\ trace[i + 1] = "goto"
          /\ trace[i + 2] = "check_login_status=False"

\* C7: scrape_collection never returns an empty list: when the DOM strategy
\* and the regex fallback both yield nothing the run ends in ScrapingError.
C7_NeverReturnsEmpty ==
    op = "scrape" =>
        /\ outcome = "returned" => icons # << >>
        /\ (Has("extract_regex") /\ icons = << >>) => outcome = "ScrapingError"

C7_Witness ==
    /\ op = "scrape" /\ pc = "done" /\ Has("extract_dom") /\ Has("extract_regex")
    /\ icons = << >> /\ outcome = "ScrapingError"

\* C8: when the DOM strategy yields nothing and the regex finds at least one
\* id, the extraction gives one resource per distinct id the regex found, in
\* first-seen order, and the run does not fail on it (in rev "src" only an
\* exception of the two session calls that follow can still end the run).
C8_RegexFallbackResult ==
    (op = "scrape" /\ Has("extract_regex") /\ id_matches # << >>) =>
        /\ IsFirstSeenOrder(IdsOf(icons), id_matches)
        /\ \/ outcome = "returned"
           \/ rev = "src" /\ pc = "session" /\ outcome = "running"
           \/ rev = "src" /\ outcome \in {"Error", "Cancelled"} /\ ~Has("cookies")

C8_Witness ==
    /\ op = "scrape" /\ pc = "done" /\ outcome = "returned"
    /\ Has("extract_regex") /\ Len(id_matches) = 3 /\ Len(icons) = 2

(***************************************************************************)
(* Properties of the fetcher (specification SpecFetch)                     *)
(***************************************************************************)
DownloadUrlAllowed(u) ==
    /\ u.scheme = "https"
    /\ \E d \in ALLOWED_DOWNLOAD_DOMAINS : HostIs(u.netloc, d)

DownloadUrlAllowedByHost(u) ==
    /\ u.scheme = "https"
    /\ \E d \in ALLOWED_DOWNLOAD_DOMAINS : HostIs(Hostname(u.netloc), d)

Validated == f_pc \notin {"idle", "validate"}

Transient(l) ==
    \/ l.kind \in {"Timeout", "ConnectionError"}
    \/ l.kind = "DownloadError" /\ is_retriable_status_code(l.status)

C10_TransientRetriedAtMostThree ==
    Validated =>
        /\ (f_pc = "done" /\ Transient(last)) => attempt_number = MAX_RETRIES
        /\ Len(requests) <= MAX_RETRIES

(***************************************************************************)
(* Properties of the extraction functions (specification SpecExtract)      *)
(***************************************************************************)
RECURSIVE SelectIds(_, _)
\* the non-NONE entries of a sequence of ids, in order
SelectIds(ids, i) ==
    IF i > Len(ids) THEN << >>
    ELSE IF ids[i] = NONE THEN SelectIds(ids, i + 1)
    ELSE <<ids[i]>> \o SelectIds(ids, i + 1)

\* the list of elements a call looks at
ElementsOf(fn, input) ==
    IF fn = "dom" THEN (IF Len(input.primary) = 0 THEN input.fallback ELSE input.primary)
    ELSE input

\* per element of the input, the id its markup holds (NONE when it holds none)
IdsInInput(fn, input) ==
    LET els == ElementsOf(fn, input)
    IN  [i \in 1..Len(els) |->
            IF fn = "robust" THEN id_match(els[i])
            ELSE IF fn = "dom" THEN els[i].qid
            ELSE els[i]]

\* per element of the input, the id the function takes from it (NONE when the
\* element is filtered out or holds no id)
IdsTaken(fn, input) ==
    LET els == ElementsOf(fn, input)
    IN  [i \in 1..Len(els) |->
            IF fn = "robust"
            THEN IF robust_skips(els[i], has_explicit_containers(els)) THEN NONE
                 ELSE id_match(els[i])
            ELSE IF fn = "dom" THEN (IF els[i].srcset THEN els[i].qid ELSE NONE)
            ELSE els[i]]

NoTwoWithSameId(found) ==
    \A i, j \in 1..Len(found) : found[i].id = found[j].id => i = j

\* C9 as stated: the returned list holds no two descriptors with the same id
\* and lists the ids in the order of their first occurrence in the input.
C9_OrderOfFirstOccurrenceInInput ==
    x_pc = "returned" =>
        /\ NoTwoWithSameId(x_out)
        /\ LET occ == SelectIds(IdsInInput(x_fn, x_in), 1)
           IN  \A i, j \in 1..Len(x_out) :
                  i < j => FirstIdx(occ, x_out[i].id) < FirstIdx(occ, x_out[j].id)

\* C9: the returned list holds no two descriptors with the same id, and it
\* lists each id once in the order of its first occurrence among the elements
\* the function takes an id from (for extract_icons_robust: the visible
\* elements with an icons8.com URL, inside an icon container when the page has
\* any); an occurrence in an element that is filtered out does not count.
C9_DedupFirstSeenAmongTaken ==
    x_pc = "returned" =>
        /\ NoTwoWithSameId(x_out)
        /\ IsFirstSeenOrder(IdsOf(x_out), SelectIds(IdsTaken(x_fn, x_in), 1))

C9_Witness ==
    /\ x_pc = "returned" /\ x_fn = "robust" /\ Len(x_in) = 3
    /\ ~x_in[1].isVisible /\ id_match(x_in[1]) = "a"
    /\ IdsOf(x_out) = <<"b", "a">>

\* C11: an attempt that receives a non-retriable HTTP error status (404) is
\* the last one: the call ends in DownloadError and, when it was the first
\* attempt, exactly one HTTP request has been sent.
NonRetriableHttpError(l) ==
    l.kind = "DownloadError" /\ l.status >= 400 /\ ~is_retriable_status_code(l.status)

C11_NonRetriableFailsAtOnce ==
    (Validated /\ NonRetriableHttpError(last)) =>
        /\ f_pc = "done" /\ f_outcome = "DownloadError"
        /\ Len(ends) = 1 => Len(requests) = 1

AllTimeouts(n) == Len(ends) >= n /\ \A i \in 1..n : ends[i] = "Timeout"

Retrying == rev \in {"root", "src"}

ContentTypePasses(r, ct) == CtHasImage(ct) \/ (r = "src" /\ CtHasXml(ct))

MagicMatches(r, b) == IF r = "src" THEN b.kind = "svg" ELSE b.kind = "png"

Received == last.kind = "content" /\ f_pc # "check"

C13_WrittenOnlyAfterBothChecks ==
    Validated =>
        /\ fs_ops # << >> =>
              (ContentTypePasses(rev, last.ctype) /\ MagicMatches(rev, content))
        /\ (Received /\ ~MagicMatches(rev, content)) =>
              (f_pc = "done" /\ f_outcome = "DownloadError" /\ fs_ops = << >>)

\* C14: an attempt whose response (status below 400) has Content-Type
\* text/html ends in a DownloadError with the message "Response is not an
\* image", whatever the body; the body is not taken, and when the call ends
\* with that attempt it ends in that DownloadError with no file written.
C14_HtmlIsNotAnImage ==
    (Validated /\ last.ctype = "text/html" /\ last.status \in 200..399) =>
        /\ last.kind = "DownloadError" /\ last.message = MsgNotImage
        /\ f_pc \in {"attempt", "done"}
        /\ fs_ops = << >>
        /\ f_pc = "done" => (f_outcome = "DownloadError" /\ f_message = MsgNotImage)

C14_Witness ==
    /\ f_pc = "done" /\ last.ctype = "text/html" /\ last.status = 200
    /\ f_outcome = "DownloadError" /\ f_message = MsgNotImage
    /\ final_path = "old"

\* C15: a body of 90 bytes makes download_icon fail with DownloadError, also
\* when its magic bytes are those of the expected format; no file is written.
C15_NinetyBytesRejected ==
    (Validated /\ Received /\ content.len = 90) =>
        (f_pc = "done" /\ f_outcome = "DownloadError" /\ fs_ops = << >>)


(***************************************************************************)
(* C16: the streaming read stops with DownloadError as soon as the bytes   *)
(* accumulated exceed the 50 MiB cap: while the loop runs the buffer is    *)
(* within the cap, it is never more than one 8192-byte chunk above it, a   *)
(* body longer than the cap is never returned, what is returned is the     *)
(* whole body, and a body of exactly the cap is returned.                  *)
(***************************************************************************)
C16_StreamingCap ==
    /\ buffered <= MAX_FILE_SIZE + CHUNK_SIZE
    /\ s_pc = "read" => buffered <= MAX_FILE_SIZE
    /\ s_pc = "raised" => buffered > MAX_FILE_SIZE /\ body_len > MAX_FILE_SIZE
    /\ s_pc = "returned" => buffered = body_len /\ body_len <= MAX_FILE_SIZE
    /\ body_len > MAX_FILE_SIZE => s_pc # "returned"
    /\ body_len = MAX_FILE_SIZE /\ buffered = body_len => s_pc # "raised"

C16_Witness ==
    /\ s_pc = "raised"
    /\ buffered = MAX_FILE_SIZE + CHUNK_SIZE

C16_WitnessExactCap ==
    /\ s_pc = "returned"
    /\ buffered = MAX_FILE_SIZE


(***************************************************************************)
(* C17: the fetcher follows no redirect: every HTTP request of a call goes *)
(* to the URL that passed validate_download_url.                           *)
(***************************************************************************)
C17_NoRedirectFollowed ==
    \A i \in 1..Len(requests) : requests[i] = "url"


(***************************************************************************)
(* C18: the write is atomic.  The final path changes only in the step that *)
(* renames the complete temp file onto it, which ends the call with the    *)
(* file saved: it never holds a partial body, and a call that ends with    *)
(* DownloadError leaves it as it was.  When the call has ended with        *)
(* DownloadError no temp file is left.                                     *)
(***************************************************************************)
FinalPathStep ==
    final_path' # final_path =>
        /\ final_path' = "complete"
        /\ f_pc = "replace"
        /\ f_outcome' = "saved"

C18_AtomicWrite ==
    /\ [][FinalPathStep]_vars
    /\ [](final_path # "partial")
    /\ [](f_pc = "done" /\ f_outcome = "DownloadError" /\ f_message = MsgWrite
            => temp_path = "absent")

\* the same for an output path whose suffix is not '.tmp'
C18_AtomicWriteOtherSuffix ==
    /\ [][~SameFile(f_output_path) => FinalPathStep]_vars
    /\ [](~SameFile(f_output_path) =>
            /\ final_path # "partial"
            /\ (f_pc = "done" /\ f_outcome = "DownloadError" /\ f_message = MsgWrite
                  => temp_path = "absent"))


(***************************************************************************)
(* C19: when a base directory is supplied and the output path resolves     *)
(* outside it, download_icon ends with ValidationError before any HTTP     *)
(* request is sent and before any directory or file is created; an output  *)
(* path that resolves inside the base directory is accepted (the URL being *)
(* valid) and the path used from then on is its absolute, resolved form.   *)
(***************************************************************************)
ResolvesInside == relative_to(resolve(f_output_path), resolve(BaseDir))

IsAbsolute(p) == p.abs /\ \A i \in 1..Len(p.dirs) : p.dirs[i] # ".."

C19_BaseDirContainsOutput ==
    f_base_dir /\ f_pc # "validate" =>
        IF ResolvesInside
        THEN validate_download_url(f_url) = "ok" =>
                /\ f_outcome # "ValidationError"
                /\ resolved_path = resolve(f_output_path)
                /\ IsAbsolute(resolved_path)
        ELSE /\ f_pc = "done"
             /\ f_outcome = "ValidationError"
             /\ requests = << >>
             /\ fs_ops = << >>
             /\ final_path \in {"absent", "old"}

C19_Witness ==
    /\ f_base_dir
    /\ f_output_path = Path(FALSE, <<"out", "..", "..", "etc">>, "a", ".png")
    /\ f_pc = "done"
    /\ f_outcome = "ValidationError"

C19_WitnessInside ==
    /\ f_base_dir
    /\ f_output_path = Path(FALSE, <<"out", "sub", "..">>, "a", ".png")
    /\ f_outcome = "saved"
    /\ resolved_path = Path(TRUE, <<"work", "out">>, "a", ".png")


(***************************************************************************)
(* C20: a failure of one item never ends the batch.  Once the loop over    *)
(* the resources has started, whatever the downloads and conversions of    *)
(* the items give, the run ends with every resource of the list attempted  *)
(* exactly once, in list order, and with the final summary printed.        *)
(***************************************************************************)
DownloadAttempts == SelectSeq(b_log, LAMBDA e : e.step = "download")

AttemptedInOrder(n) ==
    /\ Len(DownloadAttempts) = n
    /\ \A k \in 1..n : DownloadAttempts[k].item = k

C20_BatchNeverAborted ==
    /\ b_i >= 1 => \E n \in 0..b_icons : AttemptedInOrder(n)
    /\ b_pc = "done" /\ b_i >= 1 => AttemptedInOrder(b_icons) /\ b_summary

\* the same for run_download of src/icons8_collector/cli.py alone
C20_RootBatchNeverAborted == rev = "root" => C20_BatchNeverAborted

\* rev src, when no page.close() fails and at least one download succeeds
C20_BrowserBatchWithOneSaved ==
    rev = "src" /\ b_raised = "none" /\ b_pc = "done" /\ b_i >= 1 /\ b_downloaded # << >>
        => AttemptedInOrder(b_icons) /\ b_summary


(***************************************************************************)
(* C21: the exit code is 0 exactly when at least one requested artifact    *)
(* was produced: a PNG kept in the output directory (formats png and both  *)
(* of run_download) or a converted container; when every item failed to    *)
(* download or to convert the exit code is not 0.                          *)
(***************************************************************************)
ArtifactProduced ==
    IF rev = "src" \/ b_format = "ico" THEN b_converted > 0 ELSE b_downloaded # << >>

C21_ExitZeroIffArtifact ==
    b_pc = "done" => (b_exit = 0 <=> ArtifactProduced)

\* one direction holds in every revision: an artifact was produced only in
\* runs that end with exit code 0
C21_ArtifactGivesExitZero ==
    b_pc = "done" /\ ArtifactProduced => b_exit = 0

\* cli.py of both revisions: exit code 0 exactly when a download succeeded
\* and the run reached its summary
C21_ExitZeroIffDownloaded ==
    rev \in Revisions /\ b_pc = "done" => (b_exit = 0 <=> b_summary /\ b_downloaded # << >>)


(***************************************************************************)
(* C22: a run-level error (Configuration, Validation, Authentication,      *)
(* Browser, Scraping) raised while the resource list is obtained ends the  *)
(* run: no download and no conversion is attempted for any item, no        *)
(* summary is printed, and the exit code is not 0.                         *)
(***************************************************************************)
RunLevelErrorAtScrape == b_raised \in RunLevelErrors /\ b_icons = 0

C22_RunLevelErrorAborts ==
    RunLevelErrorAtScrape =>
        /\ b_pc = "done"
        /\ b_exit # 0
        /\ b_log = << >>
        /\ b_downloaded = << >>
        /\ b_converted = 0
        /\ ~b_summary

C22_Witness ==
    /\ b_raised = "AuthenticationError"
    /\ b_icons = 0
    /\ b_pc = "done"


(***************************************************************************)
(* C23: download_files_via_browser handles the icons one at a time in list *)
(* order.  At most one icon page is open at any moment; the loop comes     *)
(* back to its head, to open the page of the next icon, only when the page *)
(* of the icon before has been closed, also when its download raised; the  *)
(* k-th turn of the loop is the turn of icon k; and when the function      *)
(* returns, every icon has had exactly one turn and the list returned      *)
(* holds, in list order, exactly the icons whose response was ok and whose *)
(* body passed the signature check (and whose file could be written).      *)
(***************************************************************************)
OpenedPages == Count({"new_page"})

ClosedPages == Count({"page_close"})

ResponsePassed(r) == r.goto = "ok" /\ r.body = "png"

Increasing(s) == \A i, j \in 1..Len(s) : i < j => s[i] < s[j]

ReadCount(bytes) == from_bytes(SubSeq(bytes, 5, 6))

ReadEntry(bytes, i) ==
    LET e == SubSeq(bytes, 6 + 16 * (i - 1) + 1, 6 + 16 * i)
    IN  [width |-> e[1], height |-> e[2],
         length |-> from_bytes(SubSeq(e, 9, 12)),
         offset |-> from_bytes(SubSeq(e, 13, 16))]

Declared(n) == IF n = 0 THEN 256 ELSE n

PackedIco == k_fn = "create_ico" /\ k_outcome = "returned"

C24_IcoRoundTrip ==
    PackedIco =>
        LET N == Cardinality(DOMAIN k_images)
            E == [i \in 1..ReadCount(k_bytes) |-> ReadEntry(k_bytes, i)]
        IN  /\ ReadCount(k_bytes) = N
            /\ Len(k_bytes) >= 6 + 16 * N
            /\ {Declared(E[i].width) : i \in 1..N} = DOMAIN k_images
            /\ \A i \in 1..N :
                  /\ E[i].height = E[i].width
                  /\ E[i].length = k_images[Declared(E[i].width)]
                  /\ E[i].length > 0
            /\ E[1].offset = 6 + 16 * N
            /\ \A i \in 1..(N - 1) : E[i + 1].offset = E[i].offset + E[i].length
            /\ \A i, j \in 1..N :
                  i # j => \/ E[i].offset + E[i].length <= E[j].offset
                           \/ E[j].offset + E[j].length <= E[i].offset
            /\ E[N].offset + E[N].length = Len(k_bytes)
            /\ \A i \in 1..(N - 1) : Declared(E[i].width) > Declared(E[i + 1].width)

C24_Witness ==
    /\ PackedIco
    /\ DOMAIN k_images = {16, 48, 256}
    /\ k_images[256] = 300
    /\ Len(k_bytes) = 6 + 48 + 300 + k_images[48] + k_images[16]


(***************************************************************************)
(* C25: create_ico and create_icns called with an empty mapping raise      *)
(* ConversionError, and the output path is left as it was: no file is      *)
(* created, truncated or written.                                          *)
(***************************************************************************)
EmptyPack == k_fn \in {"create_ico", "create_icns"} /\ DOMAIN k_images = {}

C25_EmptyMappingFails ==
    EmptyPack =>
        /\ k_file = k_before
        /\ k_bytes = << >>
        /\ k_temp = "absent"
        /\ k_pc \in {"call", "done"}
        /\ k_pc = "done" => k_outcome = "ConversionError"

C25_Witness ==
    /\ EmptyPack
    /\ k_fn = "create_icns"
    /\ k_before = "old"
    /\ k_pc = "done"
    /\ k_outcome = "ConversionError"

C25_WitnessIco ==
    /\ EmptyPack
    /\ k_fn = "create_ico"
    /\ k_pc = "done"


(***************************************************************************)
(* C26: no artifact writer leaves a partially written file at its final    *)
(* path: at every step, also after a failure or an interrupt, the output   *)
(* path holds what it held before the call, or the complete artifact of a  *)
(* call that returned.                                                     *)
(***************************************************************************)
FinalPathIntact ==
    /\ k_file # "partial"
    /\ k_file # k_before => k_file = "complete" /\ k_outcome = "returned"

C26_NoPartialArtifact == FinalPathIntact

\* convert_png_to_ico alone: temp file, verification, replace
C26_ConvertPngToIcoAtomic ==
    k_fn = "convert_png_to_ico" =>
        /\ FinalPathIntact
        /\ k_temp \in {"partial", "empty"} => k_pc = "cleanup" \/ k_pc = "done"
        /\ k_outcome = "returned" => k_file = "complete" /\ k_temp = "absent"


(***************************************************************************)
(* Properties of sanitize_filename (specification SpecName)                *)
(***************************************************************************)
Sanitized == n_pc \in {"again", "done"}

NoDotDot(s) == \A i \in 1..(Len(s) - 1) : ~(s[i] = "." /\ s[i + 1] = ".")

SafeName(s) ==
    /\ \A i \in 1..Len(s) : s[i] \notin {"/", "\\", "NUL"}
    /\ NoDotDot(s)
    /\ s # << >>
    /\ Len(s) <= max_length

\* every character is one a file name must not hold or one the function drops
AllUnsafe(name) ==
    name.kind = "str" /\ name.chars # << >> /\ \A i \in 1..Len(name.chars) : ~keep(name.chars[i])

\* nothing of the name survives: every character is dropped, none is replaced
AllDropped(name) ==
    /\ name.kind = "str"
    /\ \A i \in 1..Len(name.chars) : name.chars[i] \in {" ", "NUL", ".", "@"}
    /\ NoDotDot(SelectSeq(name.chars, LAMBDA c : c # "NUL"))

SafeAndIdempotent ==
    /\ Sanitized => SafeName(n_out)
    /\ n_pc = "done" /\ n_out # n_fallback => n_again = n_out

\* C27 as stated: the output holds no '/', backslash, null byte or '..', is
\* non-empty and at most 200 characters long; empty, non-string and
\* all-unsafe input gives the fallback; sanitizing a result that is not the
\* fallback gives it back.  The fallback is one the callers pass ('icon',
\* 'icon_<i>').
C27_AllUnsafeGivesFallback ==
    /\ SafeAndIdempotent
    /\ Sanitized /\ (n_name.kind # "str" \/ n_name.chars = << >> \/ AllUnsafe(n_name))
           => n_out = n_fallback

\* C27 amended: the same, but the fallback is returned only when nothing of
\* the name survives (it is empty, not a string, or made of spaces and dropped
\* characters without a pair of dots); a '/', a backslash or a pair of dots is
\* replaced by '_', so a name made only of those comes back as underscores.
C27_SanitizeFilename ==
    /\ SafeAndIdempotent
    /\ Sanitized /\ (n_name.kind # "str" \/ AllDropped(n_name)) => n_out = n_fallback
    /\ Sanitized /\ AllUnsafe(n_name) /\ ~AllDropped(n_name)
           => n_out # n_fallback /\ \A i \in 1..Len(n_out) : n_out[i] = "_"

C27_Witness ==
    /\ n_pc = "done"
    /\ n_name.chars = <<".", ".", "/">>
    /\ n_out = <<"_", "_">>
    /\ n_again = n_out

C27_WitnessTruncated ==
    /\ n_pc = "done"
    /\ Len(n_name.chars) > max_length
    /\ Len(n_out) = max_length
    /\ n_again = n_out


(***************************************************************************)
(* Properties of error reporting (specification SpecReport)                *)
(***************************************************************************)
HasEmail(s) == \E i \in 1..Len(s) : email_end(s, i) > 0

\* a credential whose value is text of the message, not a redaction marker
HasCredential(s) ==
    \E i \in 1..Len(s) :
        LET m == credential_match(s, i)
        IN m.to > 0 /\ \E j \in m.from..m.to : s[j] \notin Markers

Redacted(s) == ~HasEmail(s) /\ ~HasCredential(s)

\* C28 as stated: whatever class of error carries it, a message that is
\* printed or logged holds no email address and no credential-like
\* 'password/token/secret/key/auth = value' text.
C28_ShownRedacted == e_pc = "shown" => Redacted(e_shown)

\* What holds: a message carried by an exception of the package's own
\* hierarchy is redacted when it is shown.
C28_OwnErrorsRedacted ==
    e_pc = "shown" /\ e_kind = "Icons8CollectorError" => Redacted(e_shown)

C28_OwnErrorShown ==
    /\ e_pc = "shown"
    /\ e_kind = "Icons8CollectorError"
    /\ HasEmail(e_text)
    /\ HasCredential(e_text)
    /\ Redacted(e_shown)


(***************************************************************************)
(* Properties of the user-agent cache (specification SpecLaunch)           *)
(***************************************************************************)
\* launch i left the identity file in place: it found it or wrote it
FoundOrWritten(i) == u_launches[i].file # AbsentFile

\* C29 as stated: once a launch has found or written the identity file,
\* every later launch uses the string the file holds and leaves the file as
\* it is.
C29_EveryLaterLaunchReuses ==
    \A i, j \in 1..Len(u_launches) :
        i < j /\ FoundOrWritten(i) =>
            /\ u_launches[j].ua = read_strip(u_launches[i].file)
            /\ u_launches[j].file = u_launches[i].file

\* C29 amended: once a launch has found or written the identity file, no
\* later launch writes it, and every later launch that reads it uses the
\* string it holds; a launch whose read fails draws a string for itself.
C29_UserAgentReused ==
    \A i, j \in 1..Len(u_launches) :
        i < j /\ FoundOrWritten(i) =>
            /\ u_launches[j].file = u_launches[i].file
            /\ u_launches[j].how \in {"read", "read_failed"}
            /\ u_launches[j].how = "read" =>
                   u_launches[j].ua = read_strip(u_launches[i].file)

C29_Witness ==
    /\ Len(u_launches) = 3
    /\ u_launches[1].how = "wrote"
    /\ u_launches[2].how = "read"
    /\ u_launches[3].how = "read"
    /\ u_launches[3].ua = u_launches[1].ua
    /\ u_launches[3].file = File(u_launches[1].ua, "")


(***************************************************************************)
(* Properties of the layer sizes of convert_png_to_ico (SpecPack)          *)
(***************************************************************************)
SizesChosen == k_fn = "convert_png_to_ico" /\ k_pc \in {"save", "replace"}

FittingSizes ==
    {Square(n) : n \in {m \in ico_sizes : m <= k_src.width /\ m <= k_src.height}}

\* C30: convert_png_to_ico asks for no layer larger than the source in
\* either dimension; with multi-size layers the sizes asked for are exactly
\* the standard sizes that fit within the source width and height, or the
\* source size alone when none fits (and without layers the source size
\* alone), so the set is never empty.
C30_OnlyDownscales ==
    SizesChosen =>
        /\ k_sizes # {}
        /\ \A s \in k_sizes : s.width <= k_src.width /\ s.height <= k_src.height
        /\ k_layers /\ FittingSizes # {} => k_sizes = FittingSizes
        /\ k_layers /\ FittingSizes = {} => k_sizes = {k_src}
        /\ ~k_layers => k_sizes = {k_src}

C30_Witness ==
    /\ SizesChosen
    /\ k_layers
    /\ k_src = [width |-> 100, height |-> 48]
    /\ k_sizes = {Square(48), Square(32), Square(24), Square(16)}

C30_WitnessNoneFits ==
    /\ SizesChosen
    /\ k_layers
    /\ k_src = [width |-> 20, height |-> 1]
    /\ k_sizes = {k_src}


(***************************************************************************)
(* Properties of the steps after the login checks (specification Spec)     *)
(***************************************************************************)
Checks == SelectSeq(trace, LAMBDA ev : ev \in CheckEvents)

ScrollingOrExtracting ==
    /\ op = "scrape"
    /\ \/ pc \in {"scroll", "extract", "extract_regex"}
       \/ Count({"scroll", "extract_dom", "extract_regex"}) > 0

\* a negative check, later a login, later a positive check
LoginThenPositiveCheck ==
    \E i, j, k \in 1..Len(trace) :
        /\ i < j /\ j < k
        /\ trace[i] = "check_login_status=False"
        /\ trace[j] = "perform_login"
        /\ trace[k] = "check_login_status=True"

\* C32: in scrape_collection the scroll and the extraction start only when
\* the most recent login check returned True; after a negative first check
\* they are reached only through a login followed by a positive second check.
C32_ScrollOnlyWhenLoggedIn ==
    ScrollingOrExtracting =>
        /\ Checks # << >>
        /\ Checks[Len(Checks)] = "check_login_status=True"
        /\ is_logged_in = TRUE
        /\ Checks[1] = "check_login_status=False" => LoginThenPositiveCheck

C32_Witness ==
    /\ op = "scrape"
    /\ Checks = <<"check_login_status=False", "check_login_status=True">>
    /\ Has("perform_login")
    /\ Has("scroll")
    /\ Has("extract_dom")


FirstGotoFailed == Has("goto:None") \/ Has("goto:not_ok")

\* C33: when the first page.goto of scrape_collection returns no response or
\* a response that is not ok, the run ends in ScrapingError and no login
\* check, login, scroll or extraction is executed.
C33_FailedNavigationEndsRun ==
    (op = "scrape" /\ FirstGotoFailed) =>
        /\ outcome = "ScrapingError"
        /\ Count(CheckEvents \cup {"perform_login", "scroll", "extract_dom",
                                   "extract_regex"}) = 0

C33_Witness ==
    /\ op = "scrape" /\ pc = "done" /\ rev = "src"
    /\ Has("goto:None")
    /\ outcome = "ScrapingError"

C33_WitnessNotOk ==
    /\ op = "scrape" /\ pc = "done" /\ rev = "src"
    /\ Has("goto:not_ok")
    /\ outcome = "ScrapingError"


LoginChecked == op = "scrape" /\ Checks # << >>

\* C35: check_login_status returns True iff the page shows no visible
\* 'sign in' / 'log in' affordance and shows an account or profile
\* affordance or at least one gallery image; a page with both a sign-in
\* affordance and gallery images is classified as not logged in.
C35_SignInTakesPrecedence ==
    LoginChecked =>
        /\ is_logged_in = TRUE <=>
               /\ ~login_signals.is_guest
               /\ login_signals.is_user \/ login_signals.icons_count >= 1
        /\ login_signals.is_guest /\ login_signals.icons_count >= 1 =>
               is_logged_in = FALSE

C35_Witness ==
    /\ LoginChecked
    /\ login_signals.is_guest
    /\ login_signals.icons_count >= 1
    /\ is_logged_in = FALSE


(***************************************************************************)
(* C31.  validate_size of the command line.                                *)
(***************************************************************************)
Nearest(v, sz) == \A w \in Members(CLI_VALID_SIZES) : abs(v - sz) <= abs(w - sz)

C31_WitnessRejected == z_pc = "ValueError" /\ z_size = 513

(***************************************************************************)
(* C34.  human_scroll.                                                     *)
(***************************************************************************)
\* the number of checks at the end of the history that read the height the
\* check before them had read (the first entry is the read before the loop)
RECURSIVE TrailingStable(_)
TrailingStable(seen) ==
    IF Len(seen) < 2 \/ seen[Len(seen)] # seen[Len(seen) - 1] THEN 0
    ELSE 1 + TrailingStable(SubSeq(seen, 1, Len(seen) - 1))

\* the loop's bookkeeping: at most max_scrolls scroll steps, the counter is
\* the number of consecutive unchanged checks (0 after a change), and the loop
\* is left early exactly when that number reaches MAX_STABLE_CHECKS
C34_LoopBounded ==
    h_pc # "idle" =>
        /\ h_scrolls <= max_scrolls
        /\ Len(h_seen) <= max_scrolls + 1
        /\ h_stable = TrailingStable(h_seen)
        /\ h_last = h_seen[Len(h_seen)]
        /\ h_why = "break" <=> TrailingStable(h_seen) >= MAX_STABLE_CHECKS
        /\ h_why = "break" => h_pc = "done" /\ TrailingStable(h_seen) = MAX_STABLE_CHECKS
        /\ h_why = "exhausted" => h_pc = "done" /\ h_scrolls = max_scrolls

\* C34: human_scroll terminates whatever heights the page reports, a page
\* that grows at every check included: it performs at most max_scrolls scroll
\* steps, leaves the loop early exactly when the height equalled the last
\* recorded height on 4 consecutive checks, and the counter of unchanged
\* checks is 0 again after a check that saw the height change.
C34_ScrollTerminates == [](C34_LoopBounded) /\ <>(h_pc = "done")

C34_Witness == h_pc = "done" /\ h_why = "break" /\ h_scrolls < max_scrolls /\ h_scrolls > MAX_STABLE_CHECKS

\* a page that never reports the same height twice in a row
C34_WitnessGrowing ==
    /\ h_pc = "done"
    /\ h_why = "exhausted"
    /\ \A k \in 2..Len(h_seen) : h_seen[k] # h_seen[k - 1]

(***************************************************************************)
(* C36.  The display name of a DOM icon.                                   *)
(***************************************************************************)
Suffix == <<" ", "icon">>

\* the alt text in front of its trailing ' icon'
BeforeSuffix(alt) ==
    LET text == rstrip(alt)
    IN IF EndsWith(text, Suffix) THEN SubSeq(text, 1, Len(text) - Len(Suffix)) ELSE text

\* the alt text without its trailing ' icon' and without surrounding spaces
WithoutSuffix(alt) == strip(BeforeSuffix(alt), " ")

Occurrences(s, sub) ==
    Cardinality({k \in 1..Len(s) : k + Len(sub) - 1 <= Len(s) /\ SubSeq(s, k, k + Len(sub) - 1) = sub})

\* C36: the display name of an icon found in the DOM is its alt text with the
\* trailing ' icon' suffix and the surrounding whitespace removed; the text in
\* front of the suffix is kept as it is, an 'icon' inside it included.
C36_DisplayName ==
    a_pc = "done" /\ WithoutSuffix(a_alt) # << >> => a_name = WithoutSuffix(a_alt)

\* what the code does keep: the text in front of the suffix when no ' icon'
\* occurs in it
C36_SingleSuffix ==
    a_pc = "done" /\ WithoutSuffix(a_alt) # << >>
                  /\ Occurrences(BeforeSuffix(a_alt), Suffix) = 0
        => a_name = WithoutSuffix(a_alt)

C36_Witness == a_pc = "done" /\ a_alt = <<"x", " ", "icon">> /\ a_name = <<"x">>

C36_WitnessInnerIcon == a_pc = "done" /\ a_alt = <<"x", " ", "icon", "x">> /\ a_name = <<"x", "x">>


(***************************************************************************)
(* C37.  launch_browser's failures.                                        *)
(***************************************************************************)
\* launch_browser raised: the caller's try block, whose finally closes the
\* context, was never entered
LaunchRaised ==
    /\ pc = "done"
    /\ outcome \in {"BrowserError", "Error", "Cancelled"}
    /\ \A k \in 1..Len(trace) : trace[k] # "close"

BothChannelsFailed == trace = <<"start", "chrome_failed", "stop">>

\* C37: launch_browser raises BrowserError (Playwright being installed) only
\* after the chrome channel and then the default chromium were tried and
\* failed, in that order; and whenever launch_browser raises, the Playwright
\* driver it started has been stopped and no context is left open.
C37_LaunchFailureCleansUp ==
    LaunchRaised =>
        /\ (outcome = "BrowserError" /\ trace # << >>) => BothChannelsFailed
        /\ driver # "started"
        /\ ctx # "open"

\* what the code does ensure: the BrowserError of a failed launch comes after
\* both channels failed, with the driver stopped and no context
C37_BrowserErrorAfterBothChannels ==
    (LaunchRaised /\ outcome = "BrowserError" /\ trace # << >>) =>
        /\ BothChannelsFailed
        /\ driver = "stopped"
        /\ ctx = "none"

C37_Witness == LaunchRaised /\ outcome = "BrowserError" /\ BothChannelsFailed /\ driver = "stopped"

C37_WitnessLeak == LaunchRaised /\ outcome = "Error" /\ ctx = "open" /\ driver = "started"


(***************************************************************************)
(* C38.  One browser session at a time.                                    *)
(***************************************************************************)
OpenSessions == {s \in Sessions : r_ctx[s] = "open"}

\* C38: within one run at most one browser session on the shared profile
\* directory is open at any time: the scraping session has been closed when
\* the browser-download session is launched, and no step opens a second
\* session while one is live.
C38_OneSessionAtATime ==
    /\ Cardinality(OpenSessions) <= 1
    /\ (r_pc[1] = "download" \/ r_ctx["download"] # "none") => r_ctx["scrape"] = "closed"

C38_Witness == r_ctx["download"] = "open" /\ r_ctx["scrape"] = "closed"


(***************************************************************************)
(* C39.  The format the returned URLs ask for.                             *)
(***************************************************************************)
Returned == op = "scrape" /\ pc = "done" /\ outcome = "returned"

UsedRegexFallback == \E k \in 1..Len(trace) : trace[k] = "extract_regex"

\* the URL is one whose response download_files_via_browser keeps
\* (content.startswith(b'\x89PNG'))
AsksForPng(icon) == icon.fmt = "png"

\* C39: every icon returned by scrape_collection, found by the DOM strategy
\* or by the regex fallback, carries a URL that asks for the PNG format, the
\* only one whose magic bytes the browser download accepts.
C39_ReturnedUrlsArePng ==
    Returned => \A i \in 1..Len(icons) : AsksForPng(icons[i])

\* what the code does ensure: the icons of the DOM strategy, and those of
\* the older revision's regex fallback, ask for PNG
C39_DomUrlsArePng ==
    (Returned /\ (rev = "root" \/ ~UsedRegexFallback)) =>
        \A i \in 1..Len(icons) : AsksForPng(icons[i])

C39_Witness == Returned /\ rev = "src" /\ ~UsedRegexFallback /\ icons # << >>

C39_WitnessSvg == Returned /\ rev = "src" /\ UsedRegexFallback /\ icons # << >> /\ icons[1].fmt = "svg"


(***************************************************************************)
(* C40.  One file per succeeded item.                                      *)
(***************************************************************************)
Succeeded == {w_succeeded[k] : k \in 1..Len(w_succeeded)}

FileOf(i) == {f \in w_disk : f.icon = i}

\* C40: two distinct icons of one run are never written to the same path:
\* after the run every item reported as succeeded has its file and the number
\* of files equals the number of succeeded items, also when two display
\* names sanitize to the same file name.
C40_OneFilePerSucceededItem ==
    w_pc = "done" =>
        /\ Cardinality(w_disk) = Len(w_succeeded)
        /\ \A i \in Succeeded : FileOf(i) # {}

SameCleanName ==
    \E i, j \in 1..Len(w_names) :
        i < j /\ safe_name(rev, w_names[i], i) = safe_name(rev, w_names[j], j)

\* what the code does ensure: one file per succeeded item when no two names
\* of the run are the same after cleaning
C40_DistinctNamesDistinctFiles ==
    (w_pc = "done" /\ ~SameCleanName) =>
        /\ Cardinality(w_disk) = Len(w_succeeded)
        /\ \A i \in Succeeded : FileOf(i) # {}

C40_Witness == w_pc = "done" /\ ~SameCleanName /\ Len(w_succeeded) = 2 /\ Cardinality(w_disk) = 2

C40_WitnessOverwritten ==
    w_pc = "done" /\ w_names = <<<<"a">>, <<"a", " ">>>> /\ Len(w_succeeded) = 2 /\ Cardinality(w_disk) = 1

====
